---- MODULE Spec2Model ----
(***************************************************************************)
(* VitalGuard secure-channel stack: security/quantum_crypto.py (QuantumKEM, *)
(* QuantumCipher, QuantumSignature, SecureChannel) and security/bb84_qkd.py *)
(* (BB84KeyExchange, qkd_key_exchange).                                     *)
(*                                                                         *)
(* Byte strings are sequences of bytes in a run-compressed normal form.    *)
(* A byte is one of                                                        *)
(*    <<"l", n>>        the literal byte n (0..255)                         *)
(*    <<"h", t, i>>     byte i of the output of source t, where t is a      *)
(*                      hashlib / hmac digest <<alg, input>> or an          *)
(*                      os.urandom draw <<"urandom", <<len, outcome>>>>     *)
(*    <<"x", n, S>>     the XOR of the literal n and the source bytes in S  *)
(* and a maximal run of consecutive bytes lo..hi of one source t is stored  *)
(* as the single segment <<"r", t, lo, hi>>.  hashlib, hmac, base64 and     *)
(* os.urandom are library code: they are modelled by their contract         *)
(* (SHA3 and HMAC as collision-free functions with a fixed output length,   *)
(* whose output bytes are independent of every other byte; base64 as an     *)
(* injective bytes -> str encoding).  Everything the repository's own code  *)
(* does with the bytes (concatenation, slicing, XOR, truncation, comparing) *)
(* is computed byte by byte.                                                *)
(***************************************************************************)
EXTENDS Integers, Sequences, FiniteSets, TLC

(***************************************************************************)
(* Optional values: None is the empty tuple, a present value x is <<x>>.   *)
(***************************************************************************)
None == <<>>

Some(x) == <<x>>

(***************************************************************************)
(* Bytes                                                                   *)
(***************************************************************************)
L(n) == <<"l", n>>

Lit(codes) == [i \in 1..Len(codes) |-> L(codes[i])]

ExpandSeg(s) ==
    IF s[1] = "r"
    THEN [k \in 1..(s[4] - s[3] + 1) |-> <<"h", s[2], s[3] + k - 1>>]
    ELSE <<s>>

RECURSIVE ExpandFrom(_, _)
ExpandFrom(b, i) ==
    IF i > Len(b) THEN <<>> ELSE ExpandSeg(b[i]) \o ExpandFrom(b, i + 1)

\* The byte-by-byte view of a byte string.
Expand(b) == ExpandFrom(b, 1)

\* a + b: two runs of one source that meet at the join become one run.
Cat(a, b) ==
    IF a = <<>> THEN b
    ELSE IF b = <<>> THEN a
    ELSE LET x == a[Len(a)]
             y == b[1]
         IN  IF x[1] = "r" /\ y[1] = "r" /\ x[4] + 1 = y[3] /\ x[2] = y[2]
             THEN SubSeq(a, 1, Len(a) - 1) \o << <<"r", x[2], x[3], y[4]>> >> \o SubSeq(b, 2, Len(b))
             ELSE a \o b

ByteSeg(x) == IF x[1] = "h" THEN <<"r", x[2], x[3], x[3]>> ELSE x

RECURSIVE CompressRange(_, _, _)
CompressRange(a, lo, hi) ==
    IF lo > hi THEN <<>>
    ELSE IF lo = hi THEN <<ByteSeg(a[lo])>>
    ELSE Cat(CompressRange(a, lo, (lo + hi) \div 2),
             CompressRange(a, ((lo + hi) \div 2) + 1, hi))

\* The normal form of a sequence of bytes.
Compress(a) == CompressRange(a, 1, Len(a))

\* len(b)
BLen(b) == Len(Expand(b))

\* b[from:]  (from is a 0-based Python index, from >= 0)
SliceFrom(b, from) ==
    LET e == Expand(b)
    IN  IF from >= Len(e) THEN <<>> ELSE Compress(SubSeq(e, from + 1, Len(e)))

\* b[:to]
SliceTo(b, to) ==
    LET e == Expand(b)
    IN  IF to >= Len(e) THEN b ELSE Compress(SubSeq(e, 1, to))

(***************************************************************************)
(* a ^ b on integers 0..255 and on bytes                                   *)
(***************************************************************************)
RECURSIVE IntXor(_, _)
IntXor(a, b) ==
    IF a = 0 THEN b
    ELSE IF b = 0 THEN a
    ELSE (((a % 2) + (b % 2)) % 2) + 2 * IntXor(a \div 2, b \div 2)

ByteLit(x) == IF x[1] = "l" THEN x[2] ELSE IF x[1] = "x" THEN x[2] ELSE 0

ByteSyms(x) == IF x[1] = "l" THEN {} ELSE IF x[1] = "x" THEN x[3] ELSE {x}

ByteNorm(n, S) ==
    IF S = {} THEN L(n)
    ELSE IF n = 0 /\ Cardinality(S) = 1 THEN CHOOSE h \in S : TRUE
    ELSE <<"x", n, S>>

ByteXor(a, b) ==
    ByteNorm(IntXor(ByteLit(a), ByteLit(b)),
             (ByteSyms(a) \ ByteSyms(b)) \cup (ByteSyms(b) \ ByteSyms(a)))

\* bytes(a ^ b for a, b in zip(p, q))
XorBytes(p, q) ==
    LET ep == Expand(p)
        eq == Expand(q)
        n  == IF Len(ep) < Len(eq) THEN Len(ep) ELSE Len(eq)
    IN  Compress([i \in 1..n |-> ByteXor(ep[i], eq[i])])

(***************************************************************************)
(* Library functions, by contract                                          *)
(***************************************************************************)
DIGEST256 == 32

DIGEST512 == 64

\* hashlib.sha3_256(x).digest()
Sha3_256(x) == << <<"r", <<"sha3_256", x>>, 1, DIGEST256>> >>

\* hashlib.sha3_512(x).digest()
Sha3_512(x) == << <<"r", <<"sha3_512", x>>, 1, DIGEST512>> >>

\* hmac.new(key, msg, hashlib.sha3_256).digest()
HmacSha3_256(key, msg) == << <<"r", <<"hmac_sha3_256", <<key, msg>>>>, 1, DIGEST256>> >>

\* hmac.new(key, msg, hashlib.sha3_512).digest()
HmacSha3_512(key, msg) == << <<"r", <<"hmac_sha3_512", <<key, msg>>>>, 1, DIGEST512>> >>

\* hmac.compare_digest(a, b)
CompareDigest(a, b) == a = b

\* os.urandom(n): outcome v of a draw of n bytes
Urandom(n, v) == << <<"r", <<"urandom", <<n, v>>>>, 1, n>> >>

\* base64.b64encode(b).decode()
B64Encode(b) == <<"b64", b>>

\* base64.b64decode(s)
B64Decode(s) == s[2]

\* struct.pack(">I", counter)
PackU32(c) ==
    << L((c \div 16777216) % 256), L((c \div 65536) % 256),
       L((c \div 256) % 256), L(c % 256) >>

(***************************************************************************)
(* QuantumKEM                                                              *)
(***************************************************************************)
TAG_KYBER_PUBLIC == Lit(<<107, 121, 98, 101, 114, 95, 112, 117, 98, 108, 105, 99>>)

TAG_KYBER_SHARED_SECRET ==
    Lit(<<107, 121, 98, 101, 114, 95, 115, 104, 97, 114, 101, 100, 95, 115, 101, 99, 114, 101, 116>>)

TAG_KYBER_CIPHERTEXT ==
    Lit(<<107, 121, 98, 101, 114, 95, 99, 105, 112, 104, 101, 114, 116, 101, 120, 116>>)

KEM_ALGORITHM == "VitalGuard-Kyber768-Hybrid"

KEM_SEED_BYTES == 64

KEM_EPHEMERAL_BYTES == 32

KEM_CT_HASH_BYTES == 64

\* QuantumKEM.keygen(); seed is the outcome of os.urandom(64)
KEM_keygen(seed) ==
    LET private_seed == Urandom(KEM_SEED_BYTES, seed)
        public_key   == Sha3_512(Cat(private_seed, TAG_KYBER_PUBLIC))
    IN  [public_key  |-> B64Encode(public_key),
         private_key |-> B64Encode(private_seed),
         algorithm   |-> KEM_ALGORITHM]

\* encapsulate with a shared secret that leaves the public key out of the hash
encapsulate_unbound(public_key_b64, eph) ==
    LET public_key    == B64Decode(public_key_b64)
        ephemeral     == Urandom(KEM_EPHEMERAL_BYTES, eph)
        shared_secret == Sha3_256(Cat(ephemeral, TAG_KYBER_SHARED_SECRET))
        ct_raw        == Cat(Sha3_512(Cat(Cat(public_key, ephemeral), TAG_KYBER_CIPHERTEXT)),
                             ephemeral)
    IN  <<B64Encode(ct_raw), shared_secret>>

\* QuantumKEM.encapsulate(public_key_b64); eph is the outcome of os.urandom(32).
\* Returns <<ciphertext_b64, shared_secret>>.
encapsulate(public_key_b64, eph) ==
    LET public_key    == B64Decode(public_key_b64)
        ephemeral     == Urandom(KEM_EPHEMERAL_BYTES, eph)
        shared_secret == Sha3_256(Cat(Cat(public_key, ephemeral), TAG_KYBER_SHARED_SECRET))
        ct_raw        == Cat(Sha3_512(Cat(Cat(public_key, ephemeral), TAG_KYBER_CIPHERTEXT)),
                             ephemeral)
    IN  <<B64Encode(ct_raw), shared_secret>>

\* decapsulate that takes the ephemeral from offset 32 of the ciphertext
decapsulate_offset32(private_key_b64, ciphertext_b64) ==
    LET private_seed == B64Decode(private_key_b64)
        ct_raw       == B64Decode(ciphertext_b64)
        ephemeral    == SliceFrom(ct_raw, KEM_EPHEMERAL_BYTES)
        public_key   == Sha3_512(Cat(private_seed, TAG_KYBER_PUBLIC))
    IN  Sha3_256(Cat(Cat(public_key, ephemeral), TAG_KYBER_SHARED_SECRET))

\* decapsulate that recomputes the ciphertext's 64-byte hash and, when it does
\* not match, derives the secret from the whole ciphertext
decapsulate_prefix_bound(private_key_b64, ciphertext_b64) ==
    LET private_seed == B64Decode(private_key_b64)
        ct_raw       == B64Decode(ciphertext_b64)
        ephemeral    == SliceFrom(ct_raw, KEM_CT_HASH_BYTES)
        public_key   == Sha3_512(Cat(private_seed, TAG_KYBER_PUBLIC))
        expected     == Sha3_512(Cat(Cat(public_key, ephemeral), TAG_KYBER_CIPHERTEXT))
    IN  IF SliceTo(ct_raw, KEM_CT_HASH_BYTES) = expected
        THEN Sha3_256(Cat(Cat(public_key, ephemeral), TAG_KYBER_SHARED_SECRET))
        ELSE Sha3_256(Cat(Cat(public_key, ct_raw), TAG_KYBER_SHARED_SECRET))

\* QuantumKEM.decapsulate(private_key_b64, ciphertext_b64)
decapsulate(private_key_b64, ciphertext_b64) ==
    LET private_seed == B64Decode(private_key_b64)
        ct_raw       == B64Decode(ciphertext_b64)
        ephemeral    == SliceFrom(ct_raw, KEM_CT_HASH_BYTES)
        public_key   == Sha3_512(Cat(private_seed, TAG_KYBER_PUBLIC))
    IN  Sha3_256(Cat(Cat(public_key, ephemeral), TAG_KYBER_SHARED_SECRET))

(***************************************************************************)
(* QuantumCipher                                                           *)
(***************************************************************************)
TAG_ENC_KEY == Lit(<<101, 110, 99, 95, 107, 101, 121>>)

TAG_MAC_KEY == Lit(<<109, 97, 99, 95, 107, 101, 121>>)

NONCE_BYTES == 16

CIPHER_ALGORITHM == "VitalGuard-AE-SHA3-256"

RECURSIVE key_stream_loop(_, _, _, _, _)
key_stream_loop(key, nonce, length, stream, counter) ==
    IF BLen(stream) < length
    THEN key_stream_loop(key, nonce, length,
                         Cat(stream, Sha3_256(Cat(Cat(key, nonce), PackU32(counter)))),
                         counter + 1)
    ELSE SliceTo(stream, length)

\* QuantumCipher._key_stream(key, nonce, length)
key_stream(key, nonce, length) == key_stream_loop(key, nonce, length, <<>>, 0)

\* encrypt that derives the nonce from the plaintext instead of drawing it
encrypt_derived_nonce(plaintext, shared_secret, nonce, now) ==
    LET enc_key    == Sha3_256(Cat(shared_secret, TAG_ENC_KEY))
        mac_key    == Sha3_256(Cat(shared_secret, TAG_MAC_KEY))
        derived    == SliceTo(Sha3_256(plaintext), NONCE_BYTES)
        ks         == key_stream(enc_key, derived, BLen(plaintext))
        ciphertext == XorBytes(plaintext, ks)
        mac        == HmacSha3_256(mac_key, Cat(derived, ciphertext))
    IN  [ciphertext |-> B64Encode(ciphertext),
         nonce      |-> B64Encode(derived),
         mac        |-> B64Encode(mac),
         timestamp  |-> now,
         algorithm  |-> CIPHER_ALGORITHM]

\* QuantumCipher.encrypt(plaintext, shared_secret); nonce is the os.urandom(16)
\* draw and now is int(time.time()).
encrypt(plaintext, shared_secret, nonce, now) ==
    LET enc_key    == Sha3_256(Cat(shared_secret, TAG_ENC_KEY))
        mac_key    == Sha3_256(Cat(shared_secret, TAG_MAC_KEY))
        ks         == key_stream(enc_key, nonce, BLen(plaintext))
        ciphertext == XorBytes(plaintext, ks)
        mac        == HmacSha3_256(mac_key, Cat(nonce, ciphertext))
    IN  [ciphertext |-> B64Encode(ciphertext),
         nonce      |-> B64Encode(nonce),
         mac        |-> B64Encode(mac),
         timestamp  |-> now,
         algorithm  |-> CIPHER_ALGORITHM]

\* decrypt that applies the key stream without comparing the MAC
decrypt_nomac(encrypted, shared_secret) ==
    LET ciphertext == B64Decode(encrypted.ciphertext)
        nonce      == B64Decode(encrypted.nonce)
        enc_key    == Sha3_256(Cat(shared_secret, TAG_ENC_KEY))
    IN  Some(XorBytes(ciphertext, key_stream(enc_key, nonce, BLen(ciphertext))))

\* QuantumCipher.decrypt(encrypted, shared_secret): Some(plaintext), or None when
\* the MAC does not verify.
decrypt(encrypted, shared_secret) ==
    LET ciphertext   == B64Decode(encrypted.ciphertext)
        nonce        == B64Decode(encrypted.nonce)
        mac          == B64Decode(encrypted.mac)
        enc_key      == Sha3_256(Cat(shared_secret, TAG_ENC_KEY))
        mac_key      == Sha3_256(Cat(shared_secret, TAG_MAC_KEY))
        expected_mac == HmacSha3_256(mac_key, Cat(nonce, ciphertext))
    IN  IF ~CompareDigest(mac, expected_mac)
        THEN None
        ELSE Some(XorBytes(ciphertext, key_stream(enc_key, nonce, BLen(ciphertext))))

\* The frame of one QuantumCipher.decrypt call: pc is the line about to run,
\* the other fields are the locals (None until assigned) and the return value.
decrypt_enter(encrypted, shared_secret) ==
    [pc |-> "decode", encrypted |-> encrypted, shared_secret |-> shared_secret,
     ciphertext |-> None, nonce |-> None, mac |-> None,
     enc_key |-> None, mac_key |-> None, expected_mac |-> None,
     key_stream |-> None, plaintext |-> None, ret |-> None]

\* decrypt that produces the key stream and the plaintext before it compares the MAC
decrypt_step_eager(fr) ==
    CASE fr.pc = "decode" ->
           [fr EXCEPT !.pc = "derive",
                      !.ciphertext = Some(B64Decode(fr.encrypted.ciphertext)),
                      !.nonce = Some(B64Decode(fr.encrypted.nonce)),
                      !.mac = Some(B64Decode(fr.encrypted.mac))]
      [] fr.pc = "derive" ->
           [fr EXCEPT !.pc = "verify",
                      !.enc_key = Some(Sha3_256(Cat(fr.shared_secret, TAG_ENC_KEY))),
                      !.mac_key = Some(Sha3_256(Cat(fr.shared_secret, TAG_MAC_KEY)))]
      [] fr.pc = "verify" ->
           [fr EXCEPT !.pc = "key_stream",
                      !.expected_mac =
                          Some(HmacSha3_256(fr.mac_key[1], Cat(fr.nonce[1], fr.ciphertext[1])))]
      [] fr.pc = "key_stream" ->
           [fr EXCEPT !.pc = "xor",
                      !.key_stream =
                          Some(key_stream(fr.enc_key[1], fr.nonce[1], BLen(fr.ciphertext[1])))]
      [] fr.pc = "xor" ->
           LET plaintext == XorBytes(fr.ciphertext[1], fr.key_stream[1])
           IN  [fr EXCEPT !.pc = "returned", !.plaintext = Some(plaintext),
                          !.ret = IF CompareDigest(fr.mac[1], fr.expected_mac[1])
                                  THEN Some(plaintext) ELSE None]

\* One step of QuantumCipher.decrypt: the b64decodes, the key derivation, the MAC
\* recomputation and comparison (returning None on a mismatch), the key stream,
\* the XOR and the return.
decrypt_step(fr) ==
    CASE fr.pc = "decode" ->
           [fr EXCEPT !.pc = "derive",
                      !.ciphertext = Some(B64Decode(fr.encrypted.ciphertext)),
                      !.nonce = Some(B64Decode(fr.encrypted.nonce)),
                      !.mac = Some(B64Decode(fr.encrypted.mac))]
      [] fr.pc = "derive" ->
           [fr EXCEPT !.pc = "verify",
                      !.enc_key = Some(Sha3_256(Cat(fr.shared_secret, TAG_ENC_KEY))),
                      !.mac_key = Some(Sha3_256(Cat(fr.shared_secret, TAG_MAC_KEY)))]
      [] fr.pc = "verify" ->
           LET expected_mac == HmacSha3_256(fr.mac_key[1], Cat(fr.nonce[1], fr.ciphertext[1]))
           IN  IF ~CompareDigest(fr.mac[1], expected_mac)
               THEN [fr EXCEPT !.pc = "returned", !.expected_mac = Some(expected_mac),
                               !.ret = None]
               ELSE [fr EXCEPT !.pc = "key_stream", !.expected_mac = Some(expected_mac)]
      [] fr.pc = "key_stream" ->
           [fr EXCEPT !.pc = "xor",
                      !.key_stream =
                          Some(key_stream(fr.enc_key[1], fr.nonce[1], BLen(fr.ciphertext[1])))]
      [] fr.pc = "xor" ->
           LET plaintext == XorBytes(fr.ciphertext[1], fr.key_stream[1])
           IN  [fr EXCEPT !.pc = "returned", !.plaintext = Some(plaintext),
                          !.ret = Some(plaintext)]

(***************************************************************************)
(* QuantumSignature                                                        *)
(***************************************************************************)
TAG_DILITHIUM_PUBLIC ==
    Lit(<<100, 105, 108, 105, 116, 104, 105, 117, 109, 95, 112, 117, 98, 108, 105, 99>>)

SIG_ALGORITHM == "VitalGuard-Dilithium3-Hybrid"

SIG_SEED_BYTES == 64

\* QuantumSignature.keygen(); seed is the outcome of os.urandom(64)
Sig_keygen(seed) ==
    LET private_key == Urandom(SIG_SEED_BYTES, seed)
        public_key  == Sha3_512(Cat(private_key, TAG_DILITHIUM_PUBLIC))
    IN  [signing_key |-> B64Encode(private_key),
         verify_key  |-> B64Encode(public_key),
         algorithm   |-> SIG_ALGORITHM]

\* QuantumSignature.sign(data, signing_key_b64)
sign(data, signing_key_b64) ==
    B64Encode(HmacSha3_512(B64Decode(signing_key_b64), data))

\* verify that also requires verify_key_b64 to be the public key of the signing key
verify_bound(data, signature_b64, verify_key_b64, signing_key_b64) ==
    LET sk       == B64Decode(signing_key_b64)
        expected == HmacSha3_512(sk, data)
    IN  /\ verify_key_b64 = B64Encode(Sha3_512(Cat(sk, TAG_DILITHIUM_PUBLIC)))
        /\ CompareDigest(B64Decode(signature_b64), expected)

\* QuantumSignature.verify(data, signature_b64, verify_key_b64, signing_key_b64)
verify(data, signature_b64, verify_key_b64, signing_key_b64) ==
    LET sk       == B64Decode(signing_key_b64)
        expected == HmacSha3_512(sk, data)
    IN  CompareDigest(B64Decode(signature_b64), expected)

(***************************************************************************)
(* json.dumps / json.loads on the payloads the channel carries.            *)
(* A payload is <<"int", n>>, <<"str", chars>>, <<"bool", b>>, <<"null">>,  *)
(* <<"list", items>> or <<"dict", members>> with members a sequence of      *)
(* <<key chars, value>>; text is a sequence of character codes.            *)
(***************************************************************************)
RECURSIVE DecDigits(_)
DecDigits(n) ==
    IF n < 10 THEN <<48 + n>> ELSE Append(DecDigits(n \div 10), 48 + (n % 10))

\* The body of a JSON string: '"' and '\' are escaped with a backslash.
RECURSIVE EscapeFrom(_, _)
EscapeFrom(cs, i) ==
    IF i > Len(cs) THEN <<>>
    ELSE (IF cs[i] = 34 \/ cs[i] = 92 THEN <<92, cs[i]>> ELSE <<cs[i]>>) \o EscapeFrom(cs, i + 1)

DumpString(cs) == <<34>> \o EscapeFrom(cs, 1) \o <<34>>

RECURSIVE json_dumps(_)
RECURSIVE DumpItems(_, _)
RECURSIVE DumpMembers(_, _)
\* json.dumps(v) with the default separators ", " and ": "
json_dumps(v) ==
    CASE v[1] = "int"  -> IF v[2] < 0 THEN <<45>> \o DecDigits(0 - v[2]) ELSE DecDigits(v[2])
      [] v[1] = "str"  -> DumpString(v[2])
      [] v[1] = "bool" -> IF v[2] THEN <<116, 114, 117, 101>> ELSE <<102, 97, 108, 115, 101>>
      [] v[1] = "null" -> <<110, 117, 108, 108>>
      [] v[1] = "list" -> <<91>> \o DumpItems(v[2], 1) \o <<93>>
      [] v[1] = "dict" -> <<123>> \o DumpMembers(v[2], 1) \o <<125>>

DumpItems(items, i) ==
    IF i > Len(items) THEN <<>>
    ELSE (IF i > 1 THEN <<44, 32>> ELSE <<>>) \o json_dumps(items[i]) \o DumpItems(items, i + 1)

DumpMembers(ms, i) ==
    IF i > Len(ms) THEN <<>>
    ELSE (IF i > 1 THEN <<44, 32>> ELSE <<>>) \o DumpString(ms[i][1]) \o <<58, 32>>
         \o json_dumps(ms[i][2]) \o DumpMembers(ms, i + 1)

\* str.encode("utf-8") of ASCII text
Utf8Encode(text) == Lit(text)

\* bytes.decode("utf-8"): Some(text), or None for UnicodeDecodeError.  Only
\* single-byte (ASCII) sequences are decoded; a byte that is not a known
\* literal below 128 fails to decode.
Utf8Decode(b) ==
    LET e == Expand(b)
    IN  IF \A i \in 1..Len(e) : e[i][1] = "l" /\ e[i][2] < 128
        THEN Some([i \in 1..Len(e) |-> e[i][2]])
        ELSE None

CharAt(s, i) == IF i <= Len(s) THEN s[i] ELSE -1

IsWs(c) == c \in {32, 9, 10, 13}

IsDigit(c) == c >= 48 /\ c <= 57

RECURSIVE SkipWs(_, _)
SkipWs(s, i) == IF IsWs(CharAt(s, i)) THEN SkipWs(s, i + 1) ELSE i

ParseFail(i) == <<FALSE, <<"null">>, i>>

MatchWord(s, i, w) == i + Len(w) - 1 <= Len(s) /\ SubSeq(s, i, i + Len(w) - 1) = w

\* i is just past the opening quote; returns <<ok, chars, next>>
RECURSIVE ParseStringBody(_, _, _)
ParseStringBody(s, i, acc) ==
    LET c == CharAt(s, i)
    IN  IF c = -1 \/ c < 32 THEN <<FALSE, <<>>, i>>
        ELSE IF c = 34 THEN <<TRUE, acc, i + 1>>
        ELSE IF c = 92
             THEN IF CharAt(s, i + 1) \in {34, 92}
                  THEN ParseStringBody(s, i + 2, Append(acc, s[i + 1]))
                  ELSE <<FALSE, <<>>, i>>
        ELSE ParseStringBody(s, i + 1, Append(acc, c))

\* returns <<value, next>> for the digits from i on
RECURSIVE ParseDigits(_, _, _)
ParseDigits(s, i, acc) ==
    IF IsDigit(CharAt(s, i)) THEN ParseDigits(s, i + 1, 10 * acc + (s[i] - 48)) ELSE <<acc, i>>

\* An integer literal: -?(0|[1-9][0-9]*), not followed by a fraction or exponent.
ParseInt(s, i) ==
    LET neg == CharAt(s, i) = 45
        j   == IF neg THEN i + 1 ELSE i
        d   == ParseDigits(s, j, 0)
    IN  IF ~IsDigit(CharAt(s, j)) THEN ParseFail(i)
        ELSE IF CharAt(s, j) = 48 /\ d[2] > j + 1 THEN <<TRUE, <<"int", 0>>, j + 1>>
        ELSE IF CharAt(s, d[2]) \in {46, 69, 101} THEN ParseFail(i)
        ELSE <<TRUE, <<"int", IF neg THEN 0 - d[1] ELSE d[1]>>, d[2]>>

RECURSIVE ParseValue(_, _)
RECURSIVE ParseItems(_, _, _)
RECURSIVE ParseMembers(_, _, _)
\* The JSON value starting at i: <<ok, value, next>>
ParseValue(s, i) ==
    LET c == CharAt(s, i)
    IN  CASE c = 123 ->
               LET j == SkipWs(s, i + 1)
               IN  IF CharAt(s, j) = 125 THEN <<TRUE, <<"dict", <<>>>>, j + 1>>
                   ELSE ParseMembers(s, j, <<>>)
          [] c = 91 ->
               LET j == SkipWs(s, i + 1)
               IN  IF CharAt(s, j) = 93 THEN <<TRUE, <<"list", <<>>>>, j + 1>>
                   ELSE ParseItems(s, j, <<>>)
          [] c = 34 ->
               LET r == ParseStringBody(s, i + 1, <<>>)
               IN  IF r[1] THEN <<TRUE, <<"str", r[2]>>, r[3]>> ELSE ParseFail(i)
          [] c = 45 \/ IsDigit(c) -> ParseInt(s, i)
          [] c = 116 -> IF MatchWord(s, i, <<116, 114, 117, 101>>)
                        THEN <<TRUE, <<"bool", TRUE>>, i + 4>> ELSE ParseFail(i)
          [] c = 102 -> IF MatchWord(s, i, <<102, 97, 108, 115, 101>>)
                        THEN <<TRUE, <<"bool", FALSE>>, i + 5>> ELSE ParseFail(i)
          [] c = 110 -> IF MatchWord(s, i, <<110, 117, 108, 108>>)
                        THEN <<TRUE, <<"null">>, i + 4>> ELSE ParseFail(i)
          [] OTHER -> ParseFail(i)

\* i is at the start of an item of a non-empty array
ParseItems(s, i, acc) ==
    LET r == ParseValue(s, i)
        j == SkipWs(s, r[3])
    IN  IF ~r[1] THEN ParseFail(i)
        ELSE IF CharAt(s, j) = 44 THEN ParseItems(s, SkipWs(s, j + 1), Append(acc, r[2]))
        ELSE IF CharAt(s, j) = 93 THEN <<TRUE, <<"list", Append(acc, r[2])>>, j + 1>>
        ELSE ParseFail(j)

\* i is at the opening quote of a member's key of a non-empty object
ParseMembers(s, i, acc) ==
    LET k == IF CharAt(s, i) = 34 THEN ParseStringBody(s, i + 1, <<>>) ELSE <<FALSE, <<>>, i>>
        j == SkipWs(s, k[3])
        r == IF k[1] /\ CharAt(s, j) = 58 THEN ParseValue(s, SkipWs(s, j + 1)) ELSE ParseFail(i)
        e == SkipWs(s, r[3])
    IN  IF ~r[1] THEN ParseFail(i)
        ELSE IF CharAt(s, e) = 44
             THEN ParseMembers(s, SkipWs(s, e + 1), Append(acc, <<k[2], r[2]>>))
        ELSE IF CharAt(s, e) = 125 THEN <<TRUE, <<"dict", Append(acc, <<k[2], r[2]>>)>>, e + 1>>
        ELSE ParseFail(e)

\* json.loads(text): Some(value), or None for JSONDecodeError
json_loads(text) ==
    LET r == ParseValue(text, SkipWs(text, 1))
    IN  IF r[1] /\ SkipWs(text, r[3]) = Len(text) + 1 THEN Some(r[2]) ELSE None

(***************************************************************************)
(* SecureChannel                                                           *)
(***************************************************************************)
SESSION_ID_BYTES == 16

ERR_HANDSHAKE == "RuntimeError: Handshake not completed"

ERR_TYPE == "TypeError"

ERR_UNICODE == "UnicodeDecodeError"

ERR_JSON == "JSONDecodeError"

\* Python truth value of an optional dict / bytes attribute: None and b"" are false.
Truthy(opt) == opt # None /\ opt[1] # <<>>

\* SecureChannel.__init__
NewChannel == [kem_keys |-> None, sig_keys |-> None, shared_secret |-> None, session_id |-> None]

Returned(self, ret) == [self |-> self, outcome |-> "ok", err |-> "", ret |-> ret]

Raised(self, err) == [self |-> self, outcome |-> "raise", err |-> err, ret |-> None]

\* SecureChannel.init_server(); the three arguments are the os.urandom outcomes
init_server(self, kem_seed, sig_seed, sid) ==
    LET kem == KEM_keygen(kem_seed)
        sig == Sig_keygen(sig_seed)
        id  == B64Encode(Urandom(SESSION_ID_BYTES, sid))
    IN  Returned([self EXCEPT !.kem_keys = Some(kem), !.sig_keys = Some(sig), !.session_id = Some(id)],
                 Some([public_key |-> kem.public_key, verify_key |-> sig.verify_key,
                       session_id |-> id, algorithm |-> KEM_ALGORITHM]))

\* SecureChannel.init_client(server_public_key)
init_client(self, server_public_key, eph, sid) ==
    LET enc == encapsulate(server_public_key, eph)
        id  == B64Encode(Urandom(SESSION_ID_BYTES, sid))
    IN  Returned([self EXCEPT !.shared_secret = Some(enc[2]), !.session_id = Some(id)],
                 Some([ciphertext |-> enc[1], session_id |-> id]))

\* complete_handshake that recomputes the ciphertext's hash under its own public
\* key and refuses a ciphertext made for another key
complete_handshake_validating(self, ciphertext) ==
    IF self.kem_keys = None
    THEN Raised(self, ERR_TYPE)
    ELSE LET ct_raw     == B64Decode(ciphertext)
             public_key == B64Decode(self.kem_keys[1].public_key)
             ephemeral  == SliceFrom(ct_raw, KEM_CT_HASH_BYTES)
         IN  IF SliceTo(ct_raw, KEM_CT_HASH_BYTES)
                    # Sha3_512(Cat(Cat(public_key, ephemeral), TAG_KYBER_CIPHERTEXT))
             THEN Raised(self, "ProtocolError")
             ELSE Returned([self EXCEPT !.shared_secret =
                                Some(decapsulate(self.kem_keys[1].private_key, ciphertext))],
                           None)

\* complete_handshake that keeps the shared secret of the first handshake
complete_handshake_first_wins(self, ciphertext) ==
    IF self.kem_keys = None
    THEN Raised(self, ERR_TYPE)
    ELSE IF self.shared_secret # None
    THEN Returned(self, None)
    ELSE Returned([self EXCEPT !.shared_secret =
                       Some(decapsulate(self.kem_keys[1].private_key, ciphertext))],
                  None)

\* SecureChannel.complete_handshake(ciphertext)
complete_handshake(self, ciphertext) ==
    IF self.kem_keys = None
    THEN Raised(self, ERR_TYPE)
    ELSE Returned([self EXCEPT !.shared_secret =
                       Some(decapsulate(self.kem_keys[1].private_key, ciphertext))],
                  None)

\* encrypt_patient_data without the handshake guard: a None secret reaches
\* QuantumCipher.encrypt, whose None + bytes raises TypeError
encrypt_patient_data_unguarded(self, data, nonce, now) ==
    IF self.shared_secret = None
    THEN Raised(self, ERR_TYPE)
    ELSE LET plaintext == Utf8Encode(json_dumps(data))
             encrypted == encrypt(plaintext, self.shared_secret[1],
                                  Urandom(NONCE_BYTES, nonce), now)
             signature == IF self.sig_keys # None
                          THEN Some(sign(plaintext, self.sig_keys[1].signing_key))
                          ELSE None
         IN  Returned(self, Some([encrypted   |-> encrypted,
                                  signature   |-> signature,
                                  session_id  |-> self.session_id,
                                  data_type   |-> "patient_monitoring",
                                  pqc_version |-> "1.0"]))

\* encrypt_patient_data that signs the ciphertext instead of the plaintext
encrypt_patient_data_sign_ct(self, data, nonce, now) ==
    IF ~Truthy(self.shared_secret)
    THEN Raised(self, ERR_HANDSHAKE)
    ELSE LET plaintext == Utf8Encode(json_dumps(data))
             encrypted == encrypt(plaintext, self.shared_secret[1],
                                  Urandom(NONCE_BYTES, nonce), now)
             signature == IF self.sig_keys # None
                          THEN Some(sign(B64Decode(encrypted.ciphertext),
                                         self.sig_keys[1].signing_key))
                          ELSE None
         IN  Returned(self, Some([encrypted   |-> encrypted,
                                  signature   |-> signature,
                                  session_id  |-> self.session_id,
                                  data_type   |-> "patient_monitoring",
                                  pqc_version |-> "1.0"]))

\* SecureChannel.encrypt_patient_data(data); nonce and now are what
\* QuantumCipher.encrypt draws from os.urandom and time.time
encrypt_patient_data(self, data, nonce, now) ==
    IF ~Truthy(self.shared_secret)
    THEN Raised(self, ERR_HANDSHAKE)
    ELSE LET plaintext == Utf8Encode(json_dumps(data))
             encrypted == encrypt(plaintext, self.shared_secret[1],
                                  Urandom(NONCE_BYTES, nonce), now)
             signature == IF self.sig_keys # None
                          THEN Some(sign(plaintext, self.sig_keys[1].signing_key))
                          ELSE None
         IN  Returned(self, Some([encrypted   |-> encrypted,
                                  signature   |-> signature,
                                  session_id  |-> self.session_id,
                                  data_type   |-> "patient_monitoring",
                                  pqc_version |-> "1.0"]))

\* decrypt_patient_data that returns the decoded text without json.loads
decrypt_patient_data_unparsed(self, envelope) ==
    IF ~Truthy(self.shared_secret)
    THEN Raised(self, ERR_HANDSHAKE)
    ELSE LET plaintext == decrypt(envelope.encrypted, self.shared_secret[1])
         IN  IF plaintext = None
             THEN [self |-> self, outcome |-> "none", err |-> "", ret |-> None]
             ELSE LET text == Utf8Decode(plaintext[1])
                  IN  IF text = None THEN Raised(self, ERR_UNICODE)
                      ELSE Returned(self, Some(<<"str", text[1]>>))

\* decrypt_patient_data that drops the shared secret when authentication fails
decrypt_patient_data_wipe(self, envelope) ==
    IF ~Truthy(self.shared_secret)
    THEN Raised(self, ERR_HANDSHAKE)
    ELSE LET plaintext == decrypt(envelope.encrypted, self.shared_secret[1])
         IN  IF plaintext = None
             THEN [self |-> [self EXCEPT !.shared_secret = None],
                   outcome |-> "none", err |-> "", ret |-> None]
             ELSE LET text == Utf8Decode(plaintext[1])
                  IN  IF text = None THEN Raised(self, ERR_UNICODE)
                      ELSE IF json_loads(text[1]) = None THEN Raised(self, ERR_JSON)
                      ELSE Returned(self, json_loads(text[1]))

\* decrypt_patient_data that refuses an envelope of another session or without a
\* signature
decrypt_patient_data_strict(self, envelope) ==
    IF ~Truthy(self.shared_secret)
    THEN Raised(self, ERR_HANDSHAKE)
    ELSE LET plaintext == decrypt(envelope.encrypted, self.shared_secret[1])
         IN  IF plaintext = None \/ envelope.signature = None
                \/ envelope.session_id # self.session_id
             THEN [self |-> self, outcome |-> "none", err |-> "", ret |-> None]
             ELSE LET text == Utf8Decode(plaintext[1])
                  IN  IF text = None THEN Raised(self, ERR_UNICODE)
                      ELSE IF json_loads(text[1]) = None THEN Raised(self, ERR_JSON)
                      ELSE Returned(self, json_loads(text[1]))

\* SecureChannel.decrypt_patient_data(envelope): returns Some(payload), returns
\* None (outcome "none") on authentication failure, or raises
decrypt_patient_data(self, envelope) ==
    IF ~Truthy(self.shared_secret)
    THEN Raised(self, ERR_HANDSHAKE)
    ELSE LET plaintext == decrypt(envelope.encrypted, self.shared_secret[1])
         IN  IF plaintext = None
             THEN [self |-> self, outcome |-> "none", err |-> "", ret |-> None]
             ELSE LET text == Utf8Decode(plaintext[1])
                  IN  IF text = None THEN Raised(self, ERR_UNICODE)
                      ELSE IF json_loads(text[1]) = None THEN Raised(self, ERR_JSON)
                      ELSE Returned(self, json_loads(text[1]))

(***************************************************************************)
(* BB84KeyExchange (security/bb84_qkd.py)                                  *)
(*                                                                         *)
(* A circuit is the sequence of gates applied to one qubit that starts in  *)
(* |0>.  The only gates the code applies are X and H, so the qubit is      *)
(* always in one of |0>, |1>, |+>, |->: X swaps |0> and |1> and leaves     *)
(* |+> and |-> as they are (up to a phase no measurement sees), H swaps    *)
(* |0> with |+> and |1> with |->.  A measurement of |0> gives 0 and of |1> *)
(* gives 1; a measurement of |+> or |-> gives whatever the simulator's     *)
(* coin gives.  Positions are 1..n here and 0..n-1 in the code.  A float   *)
(* is the exact ratio it stands for: sample_fraction and error_rate are    *)
(* <<numerator, denominator>>, noise_prob is a number of hundredths.       *)
(***************************************************************************)
DEFAULT_QUBITS == 256

ERR_SAMPLE == "ValueError: Sample larger than population or is negative"

\* b"vitalguard_qkd_pa"
TAG_QKD_PA ==
    Lit(<<118, 105, 116, 97, 108, 103, 117, 97, 114, 100, 95, 113, 107, 100, 95, 112, 97>>)

\* BB84KeyExchange.__init__(n_qubits, noise_probability)
BB84_init(n_qubits, noise_probability) ==
    [n_qubits |-> n_qubits, noise_prob |-> noise_probability,
     alice_bits |-> <<>>, alice_bases |-> <<>>, bob_bases |-> <<>>, bob_results |-> <<>>,
     sifted_key |-> <<>>, final_key |-> None, error_rate |-> <<0, 1>>,
     eavesdropper_detected |-> FALSE]

\* qc.x(0), qc.h(0)
Gate(state, g) ==
    IF g = "x"
    THEN CASE state = "0" -> "1" [] state = "1" -> "0" [] OTHER -> state
    ELSE CASE state = "0" -> "+" [] state = "1" -> "-" [] state = "+" -> "0" [] state = "-" -> "1"

RECURSIVE Evolve(_, _, _)
Evolve(qc, i, state) ==
    IF i > Len(qc) THEN state ELSE Evolve(qc, i + 1, Gate(state, qc[i]))

\* qc.measure(0, 0) and one shot on the simulator, whose coin decides the
\* outcome of a qubit that is in neither |0> nor |1>
Measure(qc, coin) ==
    LET state == Evolve(qc, 1, "0")
    IN  IF state = "0" THEN 0 ELSE IF state = "1" THEN 1 ELSE coin

\* BB84KeyExchange.alice_prepare(): bits and bases are the random draws, flips
\* the positions where random.random() < noise_prob came out true
alice_prepare(self, bits, bases, flips) ==
    LET encode(i) ==
            IF bases[i] = "Z"
            THEN (IF bits[i] = 1 THEN <<"x">> ELSE <<>>)
            ELSE (IF bits[i] = 0 THEN <<"h">> ELSE <<"x", "h">>)
        noise(i) == IF self.noise_prob > 0 /\ i \in flips THEN <<"x">> ELSE <<>>
    IN  [self |-> [self EXCEPT !.alice_bits = bits, !.alice_bases = bases],
         ret  |-> [i \in 1..self.n_qubits |-> encode(i) \o noise(i)]]

\* BB84KeyExchange.bob_measure(circuits): bases are the random draws, coins the
\* simulator's
bob_measure(self, circuits, bases, coins) ==
    LET results == [i \in 1..self.n_qubits |->
                       Measure(circuits[i] \o (IF bases[i] = "X" THEN <<"h">> ELSE <<>>),
                               coins[i])]
    IN  [self |-> [self EXCEPT !.bob_bases = bases, !.bob_results = results],
         ret  |-> results]

\* sift_keys that also drops the positions where the two bits differ
sift_keys_agreeing(self) ==
    LET both == [i \in 1..self.n_qubits |->
                    <<self.alice_bases[i] = self.bob_bases[i]
                          /\ self.alice_bits[i] = self.bob_results[i],
                      self.alice_bits[i], self.bob_results[i]>>]
        kept == SelectSeq(both, LAMBDA t : t[1])
        alice_sifted == [j \in 1..Len(kept) |-> kept[j][2]]
        bob_sifted   == [j \in 1..Len(kept) |-> kept[j][3]]
    IN  [self |-> [self EXCEPT !.sifted_key = alice_sifted],
         ret  |-> <<alice_sifted, bob_sifted>>]

\* BB84KeyExchange.sift_keys()
sift_keys(self) ==
    LET both == [i \in 1..self.n_qubits |->
                    <<self.alice_bases[i] = self.bob_bases[i],
                      self.alice_bits[i], self.bob_results[i]>>]
        kept == SelectSeq(both, LAMBDA t : t[1])
        alice_sifted == [j \in 1..Len(kept) |-> kept[j][2]]
        bob_sifted   == [j \in 1..Len(kept) |-> kept[j][3]]
    IN  [self |-> [self EXCEPT !.sifted_key = alice_sifted],
         ret  |-> <<alice_sifted, bob_sifted>>]

DEFAULT_SAMPLE_FRACTION == <<1, 5>>

\* max(1, int(n * sample_fraction))
SampleSize(n, sample_fraction) ==
    LET k == (n * sample_fraction[1]) \div sample_fraction[2]
    IN  IF k > 1 THEN k ELSE 1

\* [key[i] for i in range(n) if i not in set(indices)]
Remaining(key, indices) ==
    LET marked == [i \in 1..Len(key) |-> <<i \in indices, key[i]>>]
        kept   == SelectSeq(marked, LAMBDA t : ~t[1])
    IN  [j \in 1..Len(kept) |-> kept[j][2]]

\* estimate_error that also counts an error rate of exactly 0.11 as a detection
estimate_error_ge(self, alice_sifted, bob_sifted, sample_fraction, indices) ==
    LET n           == Len(alice_sifted)
        sample_size == SampleSize(n, sample_fraction)
    IN  IF sample_size > n
        THEN Raised(self, ERR_SAMPLE)
        ELSE LET errors    == Cardinality({i \in indices : alice_sifted[i] # bob_sifted[i]})
                 detected  == 100 * errors >= 11 * sample_size
                 remaining == Remaining(alice_sifted, indices)
             IN  Returned([self EXCEPT !.error_rate = <<errors, sample_size>>,
                                       !.eavesdropper_detected = detected],
                          Some([sample_size |-> sample_size,
                                errors_found |-> errors,
                                eavesdropper_detected |-> detected,
                                remaining_key_bits |-> Len(remaining),
                                secure |-> ~detected]))

\* BB84KeyExchange.estimate_error(alice_sifted, bob_sifted, sample_fraction);
\* indices is the outcome of random.sample(range(n), sample_size), which raises
\* when sample_size exceeds n.  errors / sample_size > 0.11 compares the double
\* nearest to the ratio with the double nearest to 11/100; rounding is monotone
\* and 11/100 rounds to that same double, so the comparison is true exactly when
\* the ratio exceeds 11/100.
estimate_error(self, alice_sifted, bob_sifted, sample_fraction, indices) ==
    LET n           == Len(alice_sifted)
        sample_size == SampleSize(n, sample_fraction)
    IN  IF sample_size > n
        THEN Raised(self, ERR_SAMPLE)
        ELSE LET errors    == Cardinality({i \in indices : alice_sifted[i] # bob_sifted[i]})
                 detected  == 100 * errors > 11 * sample_size
                 remaining == Remaining(alice_sifted, indices)
             IN  Returned([self EXCEPT !.error_rate = <<errors, sample_size>>,
                                       !.eavesdropper_detected = detected],
                          Some([sample_size |-> sample_size,
                                errors_found |-> errors,
                                eavesdropper_detected |-> detected,
                                remaining_key_bits |-> Len(remaining),
                                secure |-> ~detected]))

\* BB84KeyExchange.privacy_amplification(key_bits)
privacy_amplification(self, key_bits) ==
    LET bit_string == [i \in 1..Len(key_bits) |-> 48 + key_bits[i]]
        raw_bytes  == Utf8Encode(bit_string)
        final_key  == Sha3_256(Cat(raw_bytes, TAG_QKD_PA))
    IN  [self |-> [self EXCEPT !.final_key = Some(final_key)], ret |-> final_key]

\* bytes.hex() and bytes.fromhex()
Hex(b) == <<"hex", b>>

FromHex(h) == h[2]

\* The dict run_protocol returns (without sift_rate and elapsed_sec)
run_protocol_result(self, alice_sifted, error_info, final_key) ==
    [protocol          |-> "BB84",
     n_qubits          |-> self.n_qubits,
     noise_probability |-> self.noise_prob,
     sifted_key_length |-> Len(alice_sifted),
     error_estimation  |-> error_info,
     final_key_hex     |-> IF Truthy(final_key) THEN Some(Hex(final_key[1])) ELSE None,
     final_key_bits    |-> IF Truthy(final_key) THEN 256 ELSE 0,
     secure            |-> ~error_info.eavesdropper_detected]

\* What qkd_key_exchange returns for the dict run_protocol returned
qkd_key_exchange_return(result) ==
    IF result.secure /\ result.final_key_hex # None
    THEN Some(FromHex(result.final_key_hex[1]))
    ELSE None

\* intercept that re-prepares every qubit in the Z basis, whatever basis it
\* measured in
intercept_resend_z(circuits, bases, coins) ==
    LET eve_bit(i) == Measure(circuits[i] \o (IF bases[i] = "X" THEN <<"h">> ELSE <<>>), coins[i])
        new_qc(i)  == IF eve_bit(i) = 1 THEN <<"x">> ELSE <<>>
    IN  [self |-> [intercepted_bits |-> [i \in 1..Len(circuits) |-> eve_bit(i)],
                   eve_basis        |-> bases],
         ret  |-> [i \in 1..Len(circuits) |-> new_qc(i)]]

\* EveInterceptor.intercept(circuits): bases are Eve's random draws, coins the
\* simulator's.  eve_basis is a local of the loop; it is kept next to
\* intercepted_bits for the properties.
intercept(circuits, bases, coins) ==
    LET eve_bit(i) == Measure(circuits[i] \o (IF bases[i] = "X" THEN <<"h">> ELSE <<>>), coins[i])
        new_qc(i)  == IF bases[i] = "Z"
                      THEN (IF eve_bit(i) = 1 THEN <<"x">> ELSE <<>>)
                      ELSE (IF eve_bit(i) = 0 THEN <<"h">> ELSE <<"x", "h">>)
    IN  [self |-> [intercepted_bits |-> [i \in 1..Len(circuits) |-> eve_bit(i)],
                   eve_basis        |-> bases],
         ret  |-> [i \in 1..Len(circuits) |-> new_qc(i)]]

(***************************************************************************)
(* Two SecureChannel objects, "A" used as the server side and "B" as the   *)
(* client side, the values in flight between them, and a network that may  *)
(* alter what it delivers.                                                 *)
(*                                                                         *)
(* sent, done and role record the history the handshake claims speak of:   *)
(* what init_client was given and returned, what complete_handshake        *)
(* decapsulated, and which of the two calls last assigned shared_secret.   *)
(***************************************************************************)
VARIABLES
    chan,   \* the fields of each SecureChannel object
    sent,   \* per channel: the ciphertext its last init_client returned, and the key it was given
    done,   \* per channel: the ciphertext its last complete_handshake was given, and its key then
    role,   \* per channel: "client" / "server" after init_client / complete_handshake set the secret
    wire,   \* the last envelope an encrypt_patient_data call returned
    last,   \* the last call on a channel: object, method, argument, outcome
    call,   \* the last direct call of a QuantumKEM / QuantumCipher function
    bb84,   \* the fields of the BB84KeyExchange object
    run,    \* run_protocol on that object: its position, locals and outcome
    eve     \* the EveInterceptor object, once one has intercepted

vars == <<chan, sent, done, role, wire, last, call, bb84, run, eve>>

Chan == {"A", "B"}

MaxSeed == 2

MaxEph == 1

MaxNonce == 1

SigSeeds == {1}

SessionIds == {1}

Times == {1700000000}

\* {"id": "X1", "value": 42}
PayloadX1 ==
    <<"dict", << <<<<105, 100>>, <<"str", <<88, 49>>>>>>,
                 <<<<118, 97, 108, 117, 101>>, <<"int", 42>>>> >>>>

\* {"v": [-7, true, null]}
PayloadList ==
    <<"dict", << <<<<118>>, <<"list", << <<"int", -7>>, <<"bool", TRUE>>, <<"null">> >>>>>> >>>>

Payloads == {PayloadX1, PayloadList}

\* What the network can do to the bytes of one field.
XorFirst(b) == IF b = <<>> THEN b ELSE Cat(XorBytes(SliceTo(b, 1), Lit(<<1>>)), SliceFrom(b, 1))

DropLast(b) == IF b = <<>> THEN b ELSE SliceTo(b, BLen(b) - 1)

AppendZero(b) == Cat(b, Lit(<<0>>))

FieldChange(b, how) ==
    CASE how = "xor01"  -> XorFirst(b)
      [] how = "drop"   -> DropLast(b)
      [] how = "append" -> AppendZero(b)

SetField(env, f, b) == [env EXCEPT !.encrypted = [@ EXCEPT ![f] = B64Encode(b)]]

Field(env, f) == B64Decode(env.encrypted[f])

\* The tamperings of an envelope, <<field, how>>: "none" delivers it as sent, a
\* field name changes that field's bytes, "shift" moves the last nonce byte to
\* the front of the ciphertext.
NoTamper == <<"none", "">>

OneFieldTampers == {"ciphertext", "nonce", "mac"} \X {"xor01", "drop", "append"}

Tampers == {NoTamper, <<"shift", "">>} \cup OneFieldTampers

Tamper(env, t) ==
    CASE t[1] = "none"  -> env
      [] t[1] = "shift" ->
           LET n == Field(env, "nonce")
           IN  SetField(SetField(env, "nonce", DropLast(n)), "ciphertext",
                        Cat(SliceFrom(n, BLen(n) - 1), Field(env, "ciphertext")))
      [] OTHER -> SetField(env, t[1], FieldChange(Field(env, t[1]), t[2]))

\* What the network can do to a handshake ciphertext.
CtTransforms == {"none", "empty", "trunc64", "trunc80"}

CtTransform(ct, t) ==
    LET raw == B64Decode(ct)
    IN  CASE t = "none"    -> ct
          [] t = "empty"   -> B64Encode(<<>>)
          [] t = "trunc64" -> B64Encode(SliceTo(raw, 64))
          [] t = "trunc80" -> B64Encode(SliceTo(raw, 80))
          [] t = "prefix_xor"  -> B64Encode(XorFirst(raw))
          [] t = "prefix_zero" ->
               B64Encode(Cat(Lit([i \in 1..KEM_CT_HASH_BYTES |-> 0]),
                             SliceFrom(raw, KEM_CT_HASH_BYTES)))
          [] t = "prefix_swap" ->
               B64Encode(Cat(Sha3_512(Lit(<<0>>)), SliceFrom(raw, KEM_CT_HASH_BYTES)))

\* Changes to the first 64 bytes of a handshake ciphertext that leave the rest
PrefixTransforms == {"none", "prefix_xor", "prefix_zero", "prefix_swap"}

NoCall == [f |-> "", args |-> <<>>, out |-> <<>>]

Called(c, op, arg, len, r) ==
    [ch |-> c, op |-> op, arg |-> arg, len |-> len,
     outcome |-> r.outcome, err |-> r.err, ret |-> r.ret]

\* flips (where the noise event fired), indices (the sample of the error check),
\* dropped (the positions left out of the key) and key_bits (what
\* privacy_amplification was given) are kept for the properties.
RunIdle ==
    [pc |-> "idle", circuits |-> <<>>, flips |-> {}, alice_sifted |-> <<>>, bob_sifted |-> <<>>,
     indices |-> {}, error_info |-> None, dropped |-> {}, key_bits |-> <<>>, result |-> None,
     err |-> "", ret |-> None]

ChannelsFresh ==
    /\ chan = [c \in Chan |-> NewChannel]
    /\ sent = [c \in Chan |-> None]
    /\ done = [c \in Chan |-> None]
    /\ role = [c \in Chan |-> "none"]
    /\ wire = None
    /\ last = [ch |-> "", op |-> "__init__", arg |-> NoTamper, len |-> 0,
               outcome |-> "ok", err |-> "", ret |-> None]
    /\ call = NoCall

\* Two fresh channels, and a BB84KeyExchange() that is never run.
InitChan ==
    /\ ChannelsFresh
    /\ bb84 = BB84_init(DEFAULT_QUBITS, 0)
    /\ run = RunIdle
    /\ eve = None

\* c.init_server()
InitServer(c) ==
    \E ks \in 1..MaxSeed, ss \in SigSeeds, id \in SessionIds :
        LET r == init_server(chan[c], ks, ss, id)
        IN  /\ chan' = [chan EXCEPT ![c] = r.self]
            /\ last' = Called(c, "init_server", NoTamper, 0, [r EXCEPT !.ret = None])
            /\ UNCHANGED <<sent, done, role, wire, call, bb84, run, eve>>

\* c.init_client(public key that s.init_server() returned and s still holds)
InitClient(c, s) ==
    \E e \in 1..MaxEph, id \in SessionIds :
        /\ chan[s].kem_keys # None
        /\ LET pk == chan[s].kem_keys[1].public_key
               r  == init_client(chan[c], pk, e, id)
           IN  /\ chan' = [chan EXCEPT ![c] = r.self]
               /\ sent' = [sent EXCEPT ![c] = Some([ciphertext |-> r.ret[1].ciphertext,
                                                    public_key |-> pk])]
               /\ role' = [role EXCEPT ![c] = "client"]
               /\ last' = Called(c, "init_client", NoTamper, 0, [r EXCEPT !.ret = None])
               /\ UNCHANGED <<done, wire, call, bb84, run, eve>>

\* The handshake ciphertexts the network can deliver: those returned by an
\* init_client, as sent or altered by one of the transforms T.
CtInputs(T) ==
    {CtTransform(sent[b][1].ciphertext, t) : b \in {x \in Chan : sent[x] # None}, t \in T}

\* c.complete_handshake(ct)
CompleteHandshake(c, T) ==
    \E ct \in CtInputs(T) :
        LET r == complete_handshake(chan[c], ct)
        IN  /\ chan' = [chan EXCEPT ![c] = r.self]
            /\ last' = Called(c, "complete_handshake", NoTamper, BLen(B64Decode(ct)), r)
            /\ IF r.outcome = "ok"
               THEN /\ done' = [done EXCEPT ![c] =
                                   Some([ciphertext |-> ct,
                                         public_key |-> chan[c].kem_keys[1].public_key])]
                    /\ role' = [role EXCEPT ![c] = "server"]
               ELSE UNCHANGED <<done, role>>
            /\ UNCHANGED <<sent, wire, call, bb84, run, eve>>

\* c.encrypt_patient_data(p)
Encrypt(c) ==
    \E p \in Payloads, n \in 1..MaxNonce, t \in Times :
        LET r == encrypt_patient_data(chan[c], p, n, t)
        IN  /\ wire' = IF r.outcome = "ok"
                       THEN Some([env |-> r.ret[1], by |-> c, payload |-> p,
                                  key |-> chan[c].shared_secret[1]])
                       ELSE wire
            /\ chan' = [chan EXCEPT ![c] = r.self]
            /\ last' = Called(c, "encrypt_patient_data", NoTamper, 0, [r EXCEPT !.ret = None])
            /\ UNCHANGED <<sent, done, role, call, bb84, run, eve>>

\* c.decrypt_patient_data(the envelope in flight, after the network did t to it)
Decrypt(c, T) ==
    /\ wire # None
    /\ \E t \in T :
        LET r == decrypt_patient_data(chan[c], Tamper(wire[1].env, t))
        IN  /\ chan' = [chan EXCEPT ![c] = r.self]
            /\ last' = Called(c, "decrypt_patient_data", t, 0, r)
            /\ UNCHANGED <<sent, done, role, wire, call, bb84, run, eve>>

\* Server A and client B; the network may cut a handshake ciphertext short.
NextChan ==
    \/ InitServer("A")
    \/ CompleteHandshake("A", CtTransforms)
    \/ InitClient("B", "A")
    \/ \E c \in Chan : Encrypt(c)
    \/ \E c \in Chan : Decrypt(c, {NoTamper})

SpecChan == InitChan /\ [][NextChan]_vars

\* Server A and client B; the network may alter an envelope.
NextNet ==
    \/ InitServer("A")
    \/ CompleteHandshake("A", {"none"})
    \/ InitClient("B", "A")
    \/ \E c \in Chan : Encrypt(c)
    \/ \E c \in Chan : Decrypt(c, Tampers)

SpecNet == InitChan /\ [][NextNet]_vars

\* c.complete_handshake(ct) on a channel that never ran init_server; ct is a
\* ciphertext some client encapsulated for some server's public key
CompleteHandshakeEarly(c) ==
    /\ chan[c].kem_keys = None
    /\ \E ks \in 1..MaxSeed, e \in 1..MaxEph :
        LET ct == encapsulate(KEM_keygen(ks).public_key, e)[1]
            r  == complete_handshake(chan[c], ct)
        IN  /\ chan' = [chan EXCEPT ![c] = r.self]
            /\ last' = Called(c, "complete_handshake", NoTamper, BLen(B64Decode(ct)), r)
            /\ UNCHANGED <<sent, done, role, wire, call, bb84, run, eve>>

\* Server A and client B, where either may call complete_handshake before any
\* init_server of its own.
NextEarly ==
    \/ InitServer("A")
    \/ CompleteHandshake("A", {"none"})
    \/ InitClient("B", "A")
    \/ \E c \in Chan : CompleteHandshakeEarly(c)
    \/ \E c \in Chan : Encrypt(c)
    \/ \E c \in Chan : Decrypt(c, {NoTamper})

SpecEarly == InitChan /\ [][NextEarly]_vars

\* What can differ between two envelopes with the same ciphertext, nonce and mac
MetaChanges ==
    {"same", "signature_none", "signature_other", "session_id", "data_type", "pqc_version",
     "timestamp"}

Relabel(env, m) ==
    CASE m = "same"            -> env
      [] m = "signature_none"  -> [env EXCEPT !.signature = None]
      [] m = "signature_other" ->
           [env EXCEPT !.signature = Some(sign(Lit(<<0>>), Sig_keygen(1).signing_key))]
      [] m = "session_id"      -> [env EXCEPT !.session_id = Some(B64Encode(Lit(<<0>>)))]
      [] m = "data_type"       -> [env EXCEPT !.data_type = "other"]
      [] m = "pqc_version"     -> [env EXCEPT !.pqc_version = "2.0"]
      [] m = "timestamp"       -> [env EXCEPT !.encrypted = [@ EXCEPT !.timestamp = @ + 1]]

MaxDeliveries == 2

\* c.decrypt_patient_data(the envelope in flight with the fields outside
\* ciphertext, nonce and mac changed as m says); last.len counts the deliveries
Deliver(c) ==
    /\ wire # None
    /\ \E m \in MetaChanges :
        LET r == decrypt_patient_data(chan[c], Relabel(wire[1].env, m))
        IN  /\ chan' = [chan EXCEPT ![c] = r.self]
            /\ last' = Called(c, "decrypt_patient_data", <<"meta", m>>, 1, r)
            /\ UNCHANGED <<sent, done, role, wire, call, bb84, run, eve>>

\* The envelope that c decrypted last is delivered to c once more
Redeliver(c) ==
    /\ wire # None
    /\ last.op = "decrypt_patient_data"
    /\ last.ch = c
    /\ last.arg[1] = "meta"
    /\ last.len < MaxDeliveries
    /\ LET r == decrypt_patient_data(chan[c], Relabel(wire[1].env, last.arg[2]))
       IN  /\ chan' = [chan EXCEPT ![c] = r.self]
           /\ last' = Called(c, "decrypt_patient_data", last.arg, last.len + 1, r)
           /\ UNCHANGED <<sent, done, role, wire, call, bb84, run, eve>>

\* Server A and client B; envelopes arrive relabelled and more than once.
NextMeta ==
    \/ InitServer("A")
    \/ CompleteHandshake("A", {"none"})
    \/ InitClient("B", "A")
    \/ \E c \in Chan : Encrypt(c)
    \/ \E c \in Chan : Deliver(c)
    \/ \E c \in Chan : Redeliver(c)

SpecMeta == InitChan /\ [][NextMeta]_vars

\* Server A and client B; the network may alter the hash prefix of a handshake
\* ciphertext.
NextPrefix ==
    \/ InitServer("A")
    \/ CompleteHandshake("A", PrefixTransforms)
    \/ InitClient("B", "A")
    \/ \E c \in Chan : Encrypt(c)
    \/ \E c \in Chan : Decrypt(c, {NoTamper})

SpecPrefix == InitChan /\ [][NextPrefix]_vars

\* Two independent channel pairs, each a server and a client object.
Pairs == {1, 2}

ServerOf(p) == IF p = 1 THEN "A1" ELSE "A2"

ClientOf(p) == IF p = 1 THEN "B1" ELSE "B2"

PairChan == {"A1", "B1", "A2", "B2"}

PairOf(c) == IF c \in {"A1", "B1"} THEN 1 ELSE 2

\* os.urandom gives every object its own bytes: the draws of the two pairs
\* never coincide.
PairSeeds(p) == {p}

\* an attribute kept on the class, so that every object sees the assignment
assign_shared(objects, c, self) == [x \in DOMAIN objects |-> self]

\* self.<attribute> = value on object c: the attributes are set per object in
\* __init__, so no other object changes
assign(objects, c, self) == [objects EXCEPT ![c] = self]

InitPairs ==
    /\ chan = [c \in PairChan |-> NewChannel]
    /\ sent = [c \in PairChan |-> None]
    /\ done = [c \in PairChan |-> None]
    /\ role = [c \in PairChan |-> "none"]
    /\ wire = None
    /\ last = [ch |-> "", op |-> "__init__", arg |-> NoTamper, len |-> 0,
               outcome |-> "ok", err |-> "", ret |-> None]
    /\ call = NoCall
    /\ bb84 = BB84_init(DEFAULT_QUBITS, 0)
    /\ run = RunIdle
    /\ eve = None

\* The server of pair p calls init_server()
PairInitServer(p) ==
    \E ks \in PairSeeds(p), ss \in SigSeeds, id \in SessionIds :
        LET c == ServerOf(p)
            r == init_server(chan[c], ks, ss, id)
        IN  /\ chan' = assign(chan, c, r.self)
            /\ last' = Called(c, "init_server", NoTamper, 0, [r EXCEPT !.ret = None])
            /\ UNCHANGED <<sent, done, role, wire, call, bb84, run, eve>>

\* The client of pair p calls init_client(its server's public key)
PairInitClient(p) ==
    \E e \in 1..MaxEph, id \in SessionIds :
        LET c == ClientOf(p)
            s == ServerOf(p)
        IN  /\ chan[s].kem_keys # None
            /\ LET pk == chan[s].kem_keys[1].public_key
                   r  == init_client(chan[c], pk, e, id)
               IN  /\ chan' = assign(chan, c, r.self)
                   /\ sent' = [sent EXCEPT ![c] = Some([ciphertext |-> r.ret[1].ciphertext,
                                                        public_key |-> pk])]
                   /\ role' = [role EXCEPT ![c] = "client"]
                   /\ last' = Called(c, "init_client", NoTamper, 0, [r EXCEPT !.ret = None])
                   /\ UNCHANGED <<done, wire, call, bb84, run, eve>>

\* The server of pair p calls complete_handshake(its client's ciphertext)
PairCompleteHandshake(p) ==
    LET c == ServerOf(p)
        b == ClientOf(p)
    IN  /\ sent[b] # None
        /\ LET ct == sent[b][1].ciphertext
               r  == complete_handshake(chan[c], ct)
           IN  /\ chan' = assign(chan, c, r.self)
               /\ last' = Called(c, "complete_handshake", NoTamper, BLen(B64Decode(ct)), r)
               /\ done' = [done EXCEPT ![c] =
                              Some([ciphertext |-> ct,
                                    public_key |-> chan[c].kem_keys[1].public_key])]
               /\ role' = [role EXCEPT ![c] = "server"]
               /\ UNCHANGED <<sent, wire, call, bb84, run, eve>>

\* c.encrypt_patient_data(p)
PairEncrypt(c) ==
    \E p \in Payloads, n \in 1..MaxNonce, t \in Times :
        LET r == encrypt_patient_data(chan[c], p, n, t)
        IN  /\ chan' = assign(chan, c, r.self)
            /\ wire' = IF r.outcome = "ok"
                       THEN Some([env |-> r.ret[1], by |-> c, payload |-> p,
                                  key |-> chan[c].shared_secret[1]])
                       ELSE wire
            /\ last' = Called(c, "encrypt_patient_data", NoTamper, 0, [r EXCEPT !.ret = None])
            /\ UNCHANGED <<sent, done, role, call, bb84, run, eve>>

\* c.decrypt_patient_data(the envelope in flight, from either pair)
PairDecrypt(c) ==
    /\ wire # None
    /\ LET r == decrypt_patient_data(chan[c], wire[1].env)
       IN  /\ chan' = assign(chan, c, r.self)
           /\ last' = Called(c, "decrypt_patient_data", NoTamper, 0, r)
           /\ UNCHANGED <<sent, done, role, wire, call, bb84, run, eve>>

\* The operations of the two pairs in any interleaving
NextPairs ==
    \/ \E p \in Pairs : PairInitServer(p)
    \/ \E p \in Pairs : PairInitClient(p)
    \/ \E p \in Pairs : PairCompleteHandshake(p)
    \/ \E c \in PairChan : PairEncrypt(c)
    \/ \E c \in PairChan : PairDecrypt(c)

SpecPairs == InitPairs /\ [][NextPairs]_vars

\* One server object S and two client objects C1, C2 that both use S's public
\* key.
Clients == {"C1", "C2"}

TwoChan == {"S"} \cup Clients

\* The outcome of each client's os.urandom(32) in encapsulate: two clients never
\* draw the same bytes.
ClientEph(c) == IF c = "C1" THEN 1 ELSE 2

InitTwoClients ==
    /\ chan = [c \in TwoChan |-> NewChannel]
    /\ sent = [c \in TwoChan |-> None]
    /\ done = [c \in TwoChan |-> None]
    /\ role = [c \in TwoChan |-> "none"]
    /\ wire = None
    /\ last = [ch |-> "", op |-> "__init__", arg |-> NoTamper, len |-> 0,
               outcome |-> "ok", err |-> "", ret |-> None]
    /\ call = NoCall
    /\ bb84 = BB84_init(DEFAULT_QUBITS, 0)
    /\ run = RunIdle
    /\ eve = None

\* S.init_server(), once
TwoInitServer ==
    /\ chan["S"].kem_keys = None
    /\ \E ks \in 1..MaxSeed, ss \in SigSeeds, id \in SessionIds :
        LET r == init_server(chan["S"], ks, ss, id)
        IN  /\ chan' = assign(chan, "S", r.self)
            /\ last' = Called("S", "init_server", NoTamper, 0, [r EXCEPT !.ret = None])
            /\ UNCHANGED <<sent, done, role, wire, call, bb84, run, eve>>

\* c.init_client(S's public key)
TwoInitClient(c) ==
    /\ chan["S"].kem_keys # None
    /\ sent[c] = None
    /\ \E id \in SessionIds :
        LET pk == chan["S"].kem_keys[1].public_key
            r  == init_client(chan[c], pk, ClientEph(c), id)
        IN  /\ chan' = assign(chan, c, r.self)
            /\ sent' = [sent EXCEPT ![c] = Some([ciphertext |-> r.ret[1].ciphertext,
                                                 public_key |-> pk])]
            /\ role' = [role EXCEPT ![c] = "client"]
            /\ last' = Called(c, "init_client", NoTamper, 0, [r EXCEPT !.ret = None])
            /\ UNCHANGED <<done, wire, call, bb84, run, eve>>

\* S.complete_handshake(the ciphertext of client c); done["S"] is the handshake
\* S completed last, done[c] says that S has completed c's
TwoComplete(c) ==
    /\ sent[c] # None
    /\ LET ct  == sent[c][1].ciphertext
           r   == complete_handshake(chan["S"], ct)
           rec == Some([ciphertext |-> ct, public_key |-> chan["S"].kem_keys[1].public_key])
       IN  /\ chan' = assign(chan, "S", r.self)
           /\ last' = Called("S", "complete_handshake", NoTamper, BLen(B64Decode(ct)), r)
           /\ done' = [done EXCEPT !["S"] = rec, ![c] = rec]
           /\ role' = [role EXCEPT !["S"] = "server"]
           /\ UNCHANGED <<sent, wire, call, bb84, run, eve>>

NextTwoClients ==
    \/ TwoInitServer
    \/ \E c \in Clients : TwoInitClient(c)
    \/ \E c \in Clients : TwoComplete(c)
    \/ \E c \in TwoChan : PairEncrypt(c)
    \/ \E c \in TwoChan : PairDecrypt(c)

SpecTwoClients == InitTwoClients /\ [][NextTwoClients]_vars

(***************************************************************************)
(* Direct calls of the QuantumCipher and QuantumKEM functions, as the unit *)
(* tests make them: call holds the arguments and what came back.           *)
(***************************************************************************)
MaxKey == 3

\* 32-byte keys
Keys == {Urandom(DIGEST256, k) : k \in 1..MaxKey}

MaxMsgLen == 2

MsgBytes == {0, 65, 255}

\* b"a" * n
Filled(n) == Lit([i \in 1..n |-> 97])

\* Byte payloads: every string over MsgBytes of up to MaxMsgLen bytes, strings
\* ending one byte before, at and after the first 32-byte key-stream block, and
\* five bytes that are not literals.
Msgs ==
    UNION {{Lit(m) : m \in [1..n -> MsgBytes]} : n \in 0..MaxMsgLen}
    \cup {Filled(DIGEST256 - 1), Filled(DIGEST256), Filled(DIGEST256 + 1)}
    \cup {Urandom(5, 1)}

\* QuantumCipher.decrypt(QuantumCipher.encrypt(m, k1), k2)
CipherCall ==
    \E m \in Msgs, k1 \in Keys, k2 \in Keys, n \in 1..MaxNonce, t \in Times :
        /\ call' = [f |-> "cipher", args |-> <<m, k1, k2>>,
                    out |-> decrypt(encrypt(m, k1, Urandom(NONCE_BYTES, n), t), k2)]
        /\ UNCHANGED <<chan, sent, done, role, wire, last, bb84, run, eve>>

\* keygen() twice, encapsulate(pk1), then decapsulate with either private key
KemCall ==
    \E s1 \in 1..MaxSeed, s2 \in 1..MaxSeed, e \in 1..MaxEph :
        LET kp1 == KEM_keygen(s1)
            kp2 == KEM_keygen(s2)
            enc == encapsulate(kp1.public_key, e)
        IN  /\ call' = [f |-> "kem", args |-> <<s1, s2, e>>,
                        out |-> [shared_secret |-> enc[2],
                                 own   |-> decapsulate(kp1.private_key, enc[1]),
                                 other |-> decapsulate(kp2.private_key, enc[1])]]
            /\ UNCHANGED <<chan, sent, done, role, wire, last, bb84, run, eve>>

\* What a caller can pass as verify_key_b64: a keygen() verify key or any other string
VerifyKeys == {Sig_keygen(s).verify_key : s \in 1..MaxSeed} \cup {B64Encode(<<>>)}

\* keygen(), sign(d, sk) twice, then verify(d2, sig, vk, sk) with the keygen's own
\* verify key and with another one
SignCall ==
    /\ call = NoCall
    /\ \E d \in Msgs, d2 \in Msgs, s \in 1..MaxSeed, vk \in VerifyKeys :
        LET sig_keys == Sig_keygen(s)
            sig      == sign(d, sig_keys.signing_key)
        IN  /\ call' = [f |-> "sig", args |-> <<d, d2, s, vk>>,
                        out |-> [sig      |-> sig,
                                 again    |-> sign(d, sig_keys.signing_key),
                                 verified |-> verify(d2, sig, sig_keys.verify_key,
                                                     sig_keys.signing_key),
                                 other_vk |-> verify(d2, sig, vk, sig_keys.signing_key)]]
            /\ UNCHANGED <<chan, sent, done, role, wire, last, bb84, run, eve>>

NextFn == CipherCall \/ KemCall

SpecFn == InitChan /\ [][NextFn]_vars

NextSig == SignCall

SpecSig == InitChan /\ [][NextSig]_vars

\* A caller enters QuantumCipher.decrypt with an encrypt() output as it arrived
DecryptEnter ==
    /\ call = NoCall
    /\ \E m \in Msgs, k1 \in Keys, k2 \in Keys, n \in 1..MaxNonce, t \in Times, x \in Tampers :
        LET sealed == Tamper([encrypted |-> encrypt(m, k1, Urandom(NONCE_BYTES, n), t)], x).encrypted
        IN  call' = [f |-> "decrypt", args |-> <<m, k1, k2, x>>,
                     out |-> decrypt_enter(sealed, k2)]
    /\ UNCHANGED <<chan, sent, done, role, wire, last, bb84, run, eve>>

\* The call in progress runs its next lines
DecryptStep ==
    /\ call.f = "decrypt"
    /\ call.out.pc # "returned"
    /\ call' = [call EXCEPT !.out = decrypt_step(@)]
    /\ UNCHANGED <<chan, sent, done, role, wire, last, bb84, run, eve>>

NextDec == DecryptEnter \/ DecryptStep

SpecDec == InitChan /\ [][NextDec]_vars

\* A sequence of QuantumCipher.encrypt calls under one shared secret: call.args
\* is the secret, call.out the calls so far, each with the plaintext, the
\* outcome of its os.urandom(16) draw and the dict it returned.
MaxCalls == 3

MaxDraw == 2

\* Plaintexts of the sequence: one byte each
CallMsgs == {Lit(m) : m \in [1..1 -> MsgBytes]}

EncryptAgain ==
    /\ call.f \in {"", "encrypts"}
    /\ Len(call.out) < MaxCalls
    /\ \E k \in (IF call.f = "" THEN Keys ELSE {call.args}),
          m \in CallMsgs, d \in 1..MaxDraw, t \in Times :
        call' = [f |-> "encrypts", args |-> k,
                 out |-> Append(call.out,
                                [plaintext |-> m, draw |-> d,
                                 encrypted |-> encrypt(m, k, Urandom(NONCE_BYTES, d), t)])]
    /\ UNCHANGED <<chan, sent, done, role, wire, last, bb84, run, eve>>

NextNonce == EncryptAgain

SpecNonce == InitChan /\ [][NextNonce]_vars

(***************************************************************************)
(* One BB84KeyExchange object and a call of run_protocol on it, step by    *)
(* step.  Every random draw is a choice: for up to MaxFull qubits every    *)
(* outcome is taken; for BigQubits qubits, where a sample has 100          *)
(* positions, the draws are all-zero bits measured in matching Z bases,    *)
(* noise on the first k positions for k in BigFlips, and a sample that is  *)
(* the first or the last positions.                                        *)
(***************************************************************************)
MaxFull == 3

BigQubits == 500

BigFlips == {0, 11, 12}

QubitCounts == (0..MaxFull) \cup {BigQubits}

\* noise_probability, in hundredths
NoiseLevels == {0, 10}

BitChoices(n) == IF n <= MaxFull THEN [1..n -> {0, 1}] ELSE {[i \in 1..n |-> 0]}

BasisChoices(n) == IF n <= MaxFull THEN [1..n -> {"Z", "X"}] ELSE {[i \in 1..n |-> "Z"]}

\* The simulator's coins, one per shot
CoinChoices(n) ==
    IF n <= MaxFull THEN [1..n -> {0, 1}] ELSE {[i \in 1..n |-> 0], [i \in 1..n |-> 1]}

\* Eve's bases
EveBasisChoices(n) ==
    IF n <= MaxFull THEN [1..n -> {"Z", "X"}] ELSE {[i \in 1..n |-> "Z"], [i \in 1..n |-> "X"]}

\* Where random.random() < noise_prob can come out true
FlipChoices(n, noise_prob) ==
    IF noise_prob <= 0 THEN {{}}
    ELSE IF noise_prob >= 100 THEN {1..n}
    ELSE IF n <= MaxFull THEN SUBSET (1..n)
    ELSE {1..k : k \in BigFlips}

\* What random.sample(range(n), k) can return, for k <= n
SampleChoices(n, k) ==
    IF n <= MaxFull THEN {S \in SUBSET (1..n) : Cardinality(S) = k}
    ELSE {1..k, (n - k + 1)..n}

\* The positions run_protocol leaves out of the key: its comprehension draws a
\* new random.sample(range(n), k) for every position i and leaves i out when i is
\* in the sample drawn for it.
DroppedChoices(n, k) ==
    LET candidates == IF n <= MaxFull THEN SUBSET (1..n)
                      ELSE {{}, 1..k, (n - k + 1)..n, (1..k) \cup ((n - k + 1)..n)}
    IN  {D \in candidates :
            \A i \in 1..n : \E S \in SampleChoices(n, k) : (i \in S) <=> (i \in D)}

InitQKD ==
    /\ ChannelsFresh
    /\ \E n \in QubitCounts, p \in NoiseLevels : bb84 = BB84_init(n, p)
    /\ run = RunIdle
    /\ eve = None

\* run_protocol, step 1
AlicePrepare ==
    /\ run.pc = "idle"
    /\ \E bits \in BitChoices(bb84.n_qubits), bases \in BasisChoices(bb84.n_qubits),
          flips \in FlipChoices(bb84.n_qubits, bb84.noise_prob) :
        LET r == alice_prepare(bb84, bits, bases, flips)
        IN  /\ bb84' = r.self
            /\ run' = [run EXCEPT !.pc = "prepared", !.circuits = r.ret,
                                  !.flips = IF bb84.noise_prob > 0 THEN flips ELSE {}]
    /\ UNCHANGED <<chan, sent, done, role, wire, last, call, eve>>

\* run_protocol, step 2
BobMeasure ==
    /\ run.pc = "prepared"
    /\ \E bases \in BasisChoices(bb84.n_qubits), coins \in CoinChoices(bb84.n_qubits) :
        LET r == bob_measure(bb84, run.circuits, bases, coins)
        IN  /\ bb84' = r.self
            /\ run' = [run EXCEPT !.pc = "measured"]
    /\ UNCHANGED <<chan, sent, done, role, wire, last, call, eve>>

\* run_protocol, step 3
SiftKeys ==
    /\ run.pc = "measured"
    /\ LET r == sift_keys(bb84)
       IN  /\ bb84' = r.self
           /\ run' = [run EXCEPT !.pc = "sifted", !.alice_sifted = r.ret[1],
                                 !.bob_sifted = r.ret[2]]
    /\ UNCHANGED <<chan, sent, done, role, wire, last, call, eve>>

\* run_protocol, step 4; an exception of estimate_error ends run_protocol
EstimateError ==
    /\ run.pc = "sifted"
    /\ LET n == Len(run.alice_sifted)
           k == SampleSize(n, DEFAULT_SAMPLE_FRACTION)
       IN  \E indices \in (IF k <= n THEN SampleChoices(n, k) ELSE {{}}) :
               LET r == estimate_error(bb84, run.alice_sifted, run.bob_sifted,
                                       DEFAULT_SAMPLE_FRACTION, indices)
               IN  /\ bb84' = r.self
                   /\ run' = IF r.outcome = "ok"
                             THEN [run EXCEPT !.pc = "estimated", !.indices = indices,
                                              !.error_info = r.ret]
                             ELSE [run EXCEPT !.pc = "failed", !.err = r.err]
    /\ UNCHANGED <<chan, sent, done, role, wire, last, call, eve>>

\* run_protocol, step 5 and the return: the key is hashed from the sifted bits
\* that the samples drawn here, one per position, leave in
Finish ==
    /\ run.pc = "estimated"
    /\ LET n    == Len(run.alice_sifted)
           info == run.error_info[1]
       IN  IF ~info.eavesdropper_detected
           THEN \E dropped \in DroppedChoices(n, SampleSize(n, DEFAULT_SAMPLE_FRACTION)) :
                    LET r == privacy_amplification(bb84, Remaining(run.alice_sifted, dropped))
                    IN  /\ bb84' = r.self
                        /\ run' = [run EXCEPT !.pc = "done", !.dropped = dropped,
                                      !.key_bits = Remaining(run.alice_sifted, dropped), !.result =
                                      Some(run_protocol_result(bb84, run.alice_sifted, info,
                                                               Some(r.ret)))]
           ELSE /\ bb84' = bb84
                /\ run' = [run EXCEPT !.pc = "done", !.result =
                              Some(run_protocol_result(bb84, run.alice_sifted, info, None))]
    /\ UNCHANGED <<chan, sent, done, role, wire, last, call, eve>>

\* qkd_key_exchange, after run_protocol returned
KeyExchangeReturn ==
    /\ run.pc = "done"
    /\ run' = [run EXCEPT !.pc = "returned", !.ret = qkd_key_exchange_return(run.result[1])]
    /\ UNCHANGED <<chan, sent, done, role, wire, last, call, bb84, eve>>

\* eve = EveInterceptor(); circuits = eve.intercept(circuits), between
\* alice_prepare and bob_measure
EveIntercept ==
    /\ run.pc = "prepared"
    /\ eve = None
    /\ \E bases \in EveBasisChoices(bb84.n_qubits), coins \in CoinChoices(bb84.n_qubits) :
        LET r == intercept(run.circuits, bases, coins)
        IN  /\ eve' = Some(r.self)
            /\ run' = [run EXCEPT !.circuits = r.ret]
    /\ UNCHANGED <<chan, sent, done, role, wire, last, call, bb84>>

NextQKD ==
    \/ AlicePrepare
    \/ BobMeasure
    \/ SiftKeys
    \/ EstimateError
    \/ Finish
    \/ KeyExchangeReturn

SpecQKD == InitQKD /\ [][NextQKD]_vars

\* run_protocol is called again on the same object: the attributes keep what
\* the earlier run left in them
RunAgain ==
    /\ run.pc = "done"
    /\ run' = RunIdle
    /\ UNCHANGED <<chan, sent, done, role, wire, last, call, bb84, eve>>

MaxRerunQubits == 2

\* One BB84KeyExchange object of up to MaxRerunQubits qubits, used for run after
\* run
InitRerun ==
    /\ ChannelsFresh
    /\ \E n \in 1..MaxRerunQubits, p \in NoiseLevels : bb84 = BB84_init(n, p)
    /\ run = RunIdle
    /\ eve = None

NextRerun ==
    \/ AlicePrepare
    \/ BobMeasure
    \/ SiftKeys
    \/ EstimateError
    \/ Finish
    \/ RunAgain

SpecRerun == InitRerun /\ [][NextRerun]_vars

\* The steps of the protocol called one by one on a noiseless channel, with an
\* interceptor between alice_prepare and bob_measure.
InitEve ==
    /\ ChannelsFresh
    /\ \E n \in QubitCounts : bb84 = BB84_init(n, 0)
    /\ run = RunIdle
    /\ eve = None

NextEve ==
    \/ AlicePrepare
    \/ EveIntercept
    \/ BobMeasure
    \/ SiftKeys
    \/ EstimateError

SpecEve == InitEve /\ [][NextEve]_vars

(***************************************************************************)
(* Properties                                                              *)
(***************************************************************************)
\* a completed the handshake on the unmodified ciphertext that b's init_client
\* returned for a's public key, and neither secret was assigned again since.
HandshakeDone(a, b) ==
    /\ role[a] = "server"
    /\ role[b] = "client"
    /\ done[a] # None
    /\ sent[b] # None
    /\ done[a][1] = sent[b][1]

\* The last call was c.decrypt_patient_data on the envelope in flight, which
\* the peer b of c produced under the secret b holds now.
PeerDecrypt(c, b) ==
    /\ last.op = "decrypt_patient_data"
    /\ last.ch = c
    /\ wire # None
    /\ wire[1].by = b
    /\ c # b
    /\ HandshakeDone(c, b) \/ HandshakeDone(b, c)
    /\ chan[b].shared_secret = Some(wire[1].key)

\* C1: after init_server on A, init_client on B with A's public key and
\* complete_handshake on A with B's ciphertext, both unmodified, the two
\* shared secrets are equal and 32 bytes long.
C1_SharedSecretAgreed ==
    \A a \in Chan, b \in Chan :
        HandshakeDone(a, b) =>
            /\ chan[a].shared_secret # None
            /\ chan[a].shared_secret = chan[b].shared_secret
            /\ BLen(chan[a].shared_secret[1]) = 32

C1_Witness ==
    /\ HandshakeDone("A", "B")
    /\ last.op = "complete_handshake"
    /\ last.outcome = "ok"

\* C2: after a completed handshake, in either direction, decrypt_patient_data on
\* the peer of the unmodified envelope that encrypt_patient_data(p) returned
\* gives a structure equal to p.
C2_RoundTrip ==
    \A c \in Chan, b \in Chan :
        (PeerDecrypt(c, b) /\ last.arg = NoTamper) =>
            (last.outcome = "ok" /\ last.ret = Some(wire[1].payload))

C2_Witness ==
    /\ PeerDecrypt("A", "B")
    /\ last.arg = NoTamper
    /\ wire[1].payload = PayloadList
    /\ last.ret = Some(PayloadList)

\* C3: whatever the network changed in the ciphertext, nonce or mac field of an
\* envelope, the peer's decrypt_patient_data returns null: it neither raises nor
\* returns a payload.
C3_TamperedReturnsNull ==
    \A c \in Chan, b \in Chan :
        (PeerDecrypt(c, b) /\ last.arg # NoTamper) => last.outcome = "none"

\* C4: QuantumCipher.decrypt(QuantumCipher.encrypt(m, k1), k2) is m when k2 = k1
\* and None when k2 differs from k1, for every byte string m.
C4_CipherRoundTrip ==
    call.f = "cipher" =>
        call.out = IF call.args[2] = call.args[3] THEN Some(call.args[1]) ELSE None

C4_Witness ==
    /\ call.f = "cipher"
    /\ call.args[1] = Filled(DIGEST256 + 1)
    /\ call.args[2] = call.args[3]
    /\ call.out = Some(Filled(DIGEST256 + 1))

\* C5: on a channel whose shared secret is unset, encrypt_patient_data and
\* decrypt_patient_data raise the handshake-incomplete error, return nothing,
\* produce no envelope and leave the channel's fields as they were.
C5_HandshakeIncomplete ==
    [][(/\ last'.op \in {"encrypt_patient_data", "decrypt_patient_data"}
        /\ chan[last'.ch].shared_secret = None)
       => (/\ last'.outcome = "raise"
           /\ last'.err = ERR_HANDSHAKE
           /\ last'.ret = None
           /\ chan' = chan
           /\ wire' = wire)]_vars

C5_Witness ==
    /\ last.op = "encrypt_patient_data"
    /\ last.ch = "A"
    /\ chan["A"].kem_keys # None
    /\ chan["A"].shared_secret = None
    /\ last.err = ERR_HANDSHAKE

\* C6: decapsulate with the private key of the keypair that encapsulate was
\* given the public key of returns encapsulate's shared secret; with the
\* private key of another keypair it returns something else.
C6_KemAgreement ==
    call.f = "kem" =>
        /\ call.out.own = call.out.shared_secret
        /\ call.args[1] # call.args[2] => call.out.other # call.out.shared_secret

C6_Witness ==
    /\ call.f = "kem"
    /\ call.args[1] # call.args[2]
    /\ call.out.own = call.out.shared_secret
    /\ call.out.other # call.out.shared_secret

\* C7: complete_handshake with a ciphertext shorter than the 64-byte hash prefix
\* plus the 32-byte ephemeral raises and leaves shared_secret unset.
C7_MalformedRejected ==
    (/\ last.op = "complete_handshake"
     /\ last.len < KEM_CT_HASH_BYTES + KEM_EPHEMERAL_BYTES
     /\ chan[last.ch].kem_keys # None)
    => (last.outcome = "raise" /\ chan[last.ch].shared_secret = None)

\* The mismatches among the sampled positions of the error check.
SampleErrors == Cardinality({i \in run.indices : run.alice_sifted[i] # run.bob_sifted[i]})

ErrorChecked == run.pc \in {"estimated", "done", "returned"}

\* C8: in a run that reached the error check with e mismatches among s sampled
\* positions, eavesdropper_detected is true exactly when e/s > 11/100; then the
\* run has no key, is not secure and qkd_key_exchange returns None; otherwise
\* the run has a 32-byte key.
C8_Threshold ==
    ErrorChecked =>
        /\ bb84.eavesdropper_detected = (100 * SampleErrors > 11 * Cardinality(run.indices))
        /\ run.pc \in {"done", "returned"} =>
              IF bb84.eavesdropper_detected
              THEN /\ run.result[1].final_key_hex = None
                   /\ ~run.result[1].secure
              ELSE /\ run.result[1].final_key_hex # None
                   /\ BLen(FromHex(run.result[1].final_key_hex[1])) = 32
                   /\ run.result[1].secure
        /\ run.pc = "returned" =>
              IF bb84.eavesdropper_detected
              THEN run.ret = None
              ELSE run.ret # None /\ BLen(run.ret[1]) = 32

C8_Witness ==
    /\ run.pc = "returned"
    /\ bb84.noise_prob > 0
    /\ Cardinality(run.indices) = 100
    /\ SampleErrors = 11
    /\ ~bb84.eavesdropper_detected
    /\ run.ret # None

\* C9: a run with n = 0 qubits fails with ConfigError:EmptyQubitSet before the
\* prepare, measure, sift and error-check steps.
C9_ZeroQubitsRejected ==
    (bb84.n_qubits = 0 /\ run.pc # "idle") =>
        (run.pc = "failed" /\ run.err = "ConfigError:EmptyQubitSet" /\ bb84.alice_bits = <<>>
         /\ bb84.bob_results = <<>> /\ run.circuits = <<>>)

\* C10: in a run of one or more qubits without noise, Bob's result equals
\* Alice's bit wherever the bases match, the error rate is 0, no eavesdropper is
\* detected, and the run ends with a 32-byte key.
C10_NoiselessRunKeyed ==
    (bb84.noise_prob = 0 /\ bb84.n_qubits >= 1) =>
        /\ run.pc \in {"measured", "sifted", "estimated", "done", "returned", "failed"} =>
              \A i \in 1..bb84.n_qubits :
                  bb84.alice_bases[i] = bb84.bob_bases[i] => bb84.bob_results[i] = bb84.alice_bits[i]
        /\ ErrorChecked => (bb84.error_rate[1] = 0 /\ ~bb84.eavesdropper_detected)
        /\ run.pc # "failed"
        /\ run.pc \in {"done", "returned"} =>
              (run.result[1].final_key_hex # None /\ BLen(bb84.final_key[1]) = 32)

\* C12: QuantumCipher.decrypt compares the MAC before it produces any key stream:
\* a key stream or plaintext exists only after the recomputed MAC matched, and a
\* call whose MAC does not match returns None with neither computed.
C12_MacBeforeKeyStream ==
    call.f = "decrypt" =>
        LET fr == call.out
        IN  /\ (fr.key_stream # None \/ fr.plaintext # None) =>
                   /\ fr.expected_mac # None
                   /\ CompareDigest(fr.mac[1], fr.expected_mac[1])
            /\ (fr.expected_mac # None /\ ~CompareDigest(fr.mac[1], fr.expected_mac[1])) =>
                   /\ fr.pc = "returned"
                   /\ fr.ret = None
                   /\ fr.key_stream = None
                   /\ fr.plaintext = None

C12_Witness ==
    /\ call.f = "decrypt"
    /\ call.out.pc = "returned"
    /\ call.out.expected_mac # None
    /\ ~CompareDigest(call.out.mac[1], call.out.expected_mac[1])
    /\ call.out.ret = None
    /\ call.out.key_stream = None

\* C13: a signature made with sk verifies under sk exactly for the data that was
\* signed, whatever verify key is passed, and signing the same data again gives
\* the same signature.
C13_SignVerify ==
    call.f = "sig" =>
        /\ call.out.again = call.out.sig
        /\ call.out.verified <=> (call.args[2] = call.args[1])
        /\ call.out.other_vk = call.out.verified

C13_Witness ==
    /\ call.f = "sig"
    /\ call.args[2] = call.args[1]
    /\ call.args[4] # Sig_keygen(call.args[3]).verify_key
    /\ call.out.other_vk

\* C14: once a channel holds a shared secret (its handshake is complete), no later
\* operation on it changes its shared_secret or its kem_keys.
C14_KeysNeverReplaced ==
    [][\A c \in Chan :
         chan[c].shared_secret # None =>
             /\ chan'[c].shared_secret = chan[c].shared_secret
             /\ chan'[c].kem_keys = chan[c].kem_keys]_vars

\* C15: encrypt_patient_data and decrypt_patient_data change no field of any
\* channel, whether they return a value, return None or raise; and right after a
\* channel rejected an envelope, the envelope its peer sealed under the secret the
\* channel holds still decrypts to the payload.
C15_PatientDataFrame ==
    [][last'.op \in {"encrypt_patient_data", "decrypt_patient_data"} =>
         /\ chan' = chan
         /\ (/\ last.op = "decrypt_patient_data"
             /\ last.outcome # "ok"
             /\ last'.op = "decrypt_patient_data"
             /\ last'.ch = last.ch
             /\ last'.arg = NoTamper
             /\ chan[last.ch].shared_secret = Some(wire[1].key))
            => (last'.outcome = "ok" /\ last'.ret = Some(wire[1].payload))]_vars

C15_Witness ==
    /\ last.op = "decrypt_patient_data"
    /\ last.outcome = "none"
    /\ last.arg # NoTamper
    /\ wire # None
    /\ wire[1].by # last.ch
    /\ chan[last.ch].shared_secret = Some(wire[1].key)

\* C16: with two channel pairs whose operations interleave in any order, an
\* operation on a channel of one pair changes no field of the other pair's
\* channels; a pair whose handshake is done holds equal shared secrets; and a
\* channel with a shared secret returns null for an envelope sealed in the other
\* pair.
C16_PairsIndependent ==
    /\ [][\A c \in PairChan : PairOf(c) # PairOf(last'.ch) => chan'[c] = chan[c]]_vars
    /\ [](\A p \in Pairs :
            HandshakeDone(ServerOf(p), ClientOf(p)) =>
                /\ chan[ServerOf(p)].shared_secret # None
                /\ chan[ServerOf(p)].shared_secret = chan[ClientOf(p)].shared_secret)
    /\ []((/\ last.op = "decrypt_patient_data"
           /\ wire # None
           /\ PairOf(wire[1].by) # PairOf(last.ch)
           /\ chan[last.ch].shared_secret # None)
          => last.outcome = "none")

C16_Witness ==
    /\ HandshakeDone("A1", "B1")
    /\ HandshakeDone("A2", "B2")
    /\ last.op = "decrypt_patient_data"
    /\ last.ch = "A2"
    /\ wire # None
    /\ wire[1].by = "B1"
    /\ last.outcome = "none"

\* C17: a run of one or more qubits never ends in an exception: whatever the
\* noise, bits, bases and measurement outcomes, it gets past the error check to
\* a result with a key or with eavesdropper_detected.
C17_NoUnhandledFailure ==
    bb84.n_qubits >= 1 =>
        /\ run.pc # "failed"
        /\ run.pc \in {"done", "returned"} =>
              (run.result[1].final_key_hex # None) # bb84.eavesdropper_detected

\* C18: in a run that produced a key, the bits given to privacy amplification are
\* Alice's sifted bits at the positions the error check did not sample, in order.
C18_KeyFromUnsampledBits ==
    (run.pc \in {"done", "returned"} /\ run.result[1].final_key_hex # None) =>
        run.key_bits = Remaining(run.alice_sifted, run.indices)

\* C20: where the noise event fired on a prepared qubit and Bob measured it in
\* Alice's basis, Bob's result is the complement of Alice's bit, in both bases.
C20_NoiseFlipsBit ==
    run.pc \in {"measured", "sifted", "estimated", "done", "returned", "failed"} =>
        \A i \in run.flips :
            bb84.alice_bases[i] = bb84.bob_bases[i] =>
                bb84.bob_results[i] = 1 - bb84.alice_bits[i]

\* Server a completed its handshake with the ciphertext client b got from
\* init_client, unmodified, but b had encapsulated under another public key than
\* the one a held when it completed.
KeyMismatch(a, b) ==
    /\ role[a] = "server"
    /\ role[b] = "client"
    /\ done[a] # None
    /\ sent[b] # None
    /\ done[a][1].ciphertext = sent[b][1].ciphertext
    /\ done[a][1].public_key # sent[b][1].public_key

\* C19: complete_handshake with a full-length ciphertext returns without error
\* and leaves the channel with a shared secret, also when the ciphertext was
\* encapsulated under another public key; after such a mismatch the two secrets
\* differ and each side returns null for the envelopes the other side seals.
C19_MismatchShowsOnDecrypt ==
    /\ (/\ last.op = "complete_handshake"
        /\ last.len = KEM_CT_HASH_BYTES + KEM_EPHEMERAL_BYTES
        /\ chan[last.ch].kem_keys # None)
       => (/\ last.outcome = "ok"
           /\ done[last.ch] # None
           /\ chan[last.ch].shared_secret # None)
    /\ \A a \in Chan, b \in Chan :
           KeyMismatch(a, b) =>
               /\ chan[a].shared_secret # None
               /\ chan[a].shared_secret # chan[b].shared_secret
               /\ \A c \in {a, b}, s \in {a, b} :
                      (/\ c # s
                       /\ last.op = "decrypt_patient_data"
                       /\ last.ch = c
                       /\ wire # None
                       /\ wire[1].by = s
                       /\ chan[s].shared_secret = Some(wire[1].key))
                      => last.outcome = "none"

C19_Witness ==
    /\ KeyMismatch("A", "B")
    /\ last.op = "decrypt_patient_data"
    /\ last.ch = "A"
    /\ wire # None
    /\ wire[1].by = "B"
    /\ chan["B"].shared_secret = Some(wire[1].key)
    /\ last.outcome = "none"

\* Bob has measured the circuits an interceptor re-prepared
Intercepted ==
    /\ eve # None
    /\ run.pc \in {"measured", "sifted", "estimated"}

\* C21: with an interceptor and no noise, at every position where Alice's and
\* Bob's bases are equal and the interceptor measured in that basis too, Bob's
\* bit equals Alice's bit: an error needs the interceptor's basis to differ.
C21_ErrorsOnlyWhereEveGuessedWrong ==
    Intercepted =>
        \A i \in 1..bb84.n_qubits :
            (/\ bb84.alice_bases[i] = bb84.bob_bases[i]
             /\ eve[1].eve_basis[i] = bb84.alice_bases[i])
            => bb84.bob_results[i] = bb84.alice_bits[i]

\* Both outcomes at positions where the interceptor's basis differs, and an
\* agreement where it is the same, in one run
C21_Witness ==
    /\ Intercepted
    /\ bb84.n_qubits = 3
    /\ \A i \in 1..3 : bb84.alice_bases[i] = bb84.bob_bases[i]
    /\ eve[1].eve_basis[1] # bb84.alice_bases[1]
    /\ bb84.bob_results[1] # bb84.alice_bits[1]
    /\ eve[1].eve_basis[2] # bb84.alice_bases[2]
    /\ bb84.bob_results[2] = bb84.alice_bits[2]
    /\ eve[1].eve_basis[3] = bb84.alice_bases[3]
    /\ bb84.alice_bases[3] = "X"
    /\ bb84.bob_results[3] = bb84.alice_bits[3]

\* The positions where Alice's and Bob's bases are equal
MatchingPositions == {i \in 1..bb84.n_qubits : bb84.alice_bases[i] = bb84.bob_bases[i]}

\* How many matching positions there are up to and including i
RankOf(i) == Cardinality({k \in MatchingPositions : k <= i})

\* C22: when sift_keys has returned, the two sifted lists have one entry per
\* position with equal bases and no other, in increasing order of position:
\* the entry for position i is Alice's bit, and Bob's result, at i.
C22_SiftKeepsMatchingBases ==
    run.pc = "sifted" =>
        /\ Len(run.alice_sifted) = Cardinality(MatchingPositions)
        /\ Len(run.bob_sifted) = Len(run.alice_sifted)
        /\ Len(run.alice_sifted) <= bb84.n_qubits
        /\ bb84.sifted_key = run.alice_sifted
        /\ \A i \in MatchingPositions :
               /\ run.alice_sifted[RankOf(i)] = bb84.alice_bits[i]
               /\ run.bob_sifted[RankOf(i)] = bb84.bob_results[i]

C22_Witness ==
    /\ run.pc = "sifted"
    /\ bb84.n_qubits = 3
    /\ MatchingPositions = {1, 3}
    /\ bb84.alice_bits = <<1, 1, 0>>
    /\ bb84.bob_results = <<0, 0, 0>>
    /\ run.alice_sifted = <<1, 0>>
    /\ run.bob_sifted = <<0, 0>>

\* C23: complete_handshake on a channel without KEM keys fails with the
\* handshake-state error (the one encrypt_patient_data and decrypt_patient_data
\* raise) and changes no field, so a channel without a shared secret stays
\* without one.
C23_EarlyCompleteIsStateError ==
    [][(/\ last'.op = "complete_handshake"
        /\ chan[last'.ch].kem_keys = None)
       => (/\ last'.outcome = "raise"
           /\ last'.err = ERR_HANDSHAKE
           /\ chan' = chan)]_vars

\* C24: the envelope encrypt_patient_data just returned carries a signature
\* exactly when the encrypting channel holds signature keys; the signature is
\* then sign(the serialized payload, the channel's signing key), and a channel
\* that only ran init_client returns signature = null.
C24_SignatureIffSigKeys ==
    (last.op = "encrypt_patient_data" /\ last.outcome = "ok") =>
        LET c   == last.ch
            env == wire[1].env
        IN  /\ wire[1].by = c
            /\ (env.signature # None) <=> (chan[c].sig_keys # None)
            /\ chan[c].sig_keys # None =>
                   env.signature = Some(sign(Utf8Encode(json_dumps(wire[1].payload)),
                                             chan[c].sig_keys[1].signing_key))
            /\ role[c] = "client" => env.signature = None

C24_Witness ==
    /\ last.op = "encrypt_patient_data"
    /\ last.outcome = "ok"
    /\ last.ch = "A"
    /\ wire[1].env.signature # None
    /\ verify(Utf8Encode(json_dumps(wire[1].payload)), wire[1].env.signature[1],
              chan["A"].sig_keys[1].verify_key, chan["A"].sig_keys[1].signing_key)

C26_ResultIgnoresMetadata ==
    (last.op = "decrypt_patient_data" /\ last.arg[1] = "meta") =>
        LET sealed == decrypt_patient_data(chan[last.ch], wire[1].env)
        IN  /\ last.outcome = sealed.outcome
            /\ last.err = sealed.err
            /\ last.ret = sealed.ret
            /\ (\E b \in Chan : PeerDecrypt(last.ch, b)) =>
                   (last.outcome = "ok" /\ last.ret = Some(wire[1].payload))

C26_Witness ==
    /\ PeerDecrypt("B", "A")
    /\ last.arg = <<"meta", "signature_none">>
    /\ last.len = 2
    /\ wire[1].env.signature # None
    /\ last.ret = Some(wire[1].payload)

\* Server a completed its handshake, under the public key client b encapsulated
\* for, with a ciphertext that equals b's from byte 64 onward.
SameFromByte64(a, b) ==
    /\ role[a] = "server"
    /\ role[b] = "client"
    /\ done[a] # None
    /\ sent[b] # None
    /\ done[a][1].public_key = sent[b][1].public_key
    /\ SliceFrom(B64Decode(done[a][1].ciphertext), KEM_CT_HASH_BYTES)
           = SliceFrom(B64Decode(sent[b][1].ciphertext), KEM_CT_HASH_BYTES)

\* C27: the server's secret after complete_handshake depends on the ciphertext
\* only from byte 64 onward: with the first 64 bytes altered in transit the
\* handshake completes and the server's secret equals the client's.
C27_PrefixUnchecked ==
    \A a \in Chan, b \in Chan :
        SameFromByte64(a, b) =>
            /\ chan[a].shared_secret # None
            /\ chan[a].shared_secret = chan[b].shared_secret

C27_Witness ==
    /\ SameFromByte64("A", "B")
    /\ done["A"][1].ciphertext # sent["B"][1].ciphertext
    /\ last.op = "decrypt_patient_data"
    /\ last.ch = "A"
    /\ wire # None
    /\ wire[1].by = "B"
    /\ chan["B"].shared_secret = Some(wire[1].key)
    /\ last.outcome = "ok"

\* C28: whenever a run of the object has ended with eavesdropper_detected true,
\* the object's final_key is null.
C28_AbortedRunLeavesNoKey ==
    (run.pc = "done" /\ bb84.eavesdropper_detected) => bb84.final_key = None

\* C29: when a run ends with a key, Bob's results at the positions whose bits
\* were hashed equal Alice's bits there, so hashing Bob's bits gives final_key.
C29_KeyIsShared ==
    (run.pc \in {"done", "returned"} /\ run.result[1].final_key_hex # None) =>
        /\ Remaining(run.bob_sifted, run.dropped) = run.key_bits
        /\ privacy_amplification(bb84, Remaining(run.bob_sifted, run.dropped)).ret
               = bb84.final_key[1]

\* S has completed the handshakes of both clients, c's last
CompletedLast(c) ==
    /\ \A x \in Clients : done[x] # None
    /\ done["S"] = done[c]

\* C30: when the server has completed the handshakes of two clients, its shared
\* secret is that of the client it completed last and not the other's: the
\* last client's envelopes decrypt on the server, the other client's give null.
C30_LastHandshakeWins ==
    \A c \in Clients :
        CompletedLast(c) =>
            /\ chan["S"].shared_secret = chan[c].shared_secret
            /\ \A o \in Clients \ {c} : chan["S"].shared_secret # chan[o].shared_secret
            /\ (/\ last.op = "decrypt_patient_data"
                /\ last.ch = "S"
                /\ wire # None
                /\ wire[1].by \in Clients)
               => IF wire[1].by = c
                  THEN last.outcome = "ok" /\ last.ret = Some(wire[1].payload)
                  ELSE last.outcome = "none"

C30_Witness ==
    /\ CompletedLast("C1")
    /\ last.op = "decrypt_patient_data"
    /\ last.ch = "S"
    /\ wire # None
    /\ wire[1].by = "C2"
    /\ last.outcome = "none"

====
